---- MODULE Spec2Model ----
(***************************************************************************)
(* A model of the OpenAPI-to-tool generator (api_generator.py), the tool   *)
(* dispatcher (ignition_tools.py) and the authenticated transport          *)
(* (ignition_client.py) of ignition-mcp.                                   *)
(*                                                                         *)
(* Python strings are sequences of one-character strings, so that prefix   *)
(* tests, substring tests, replacement and slicing are computed as the     *)
(* code computes them.  A Python dict is a sequence of entries in          *)
(* insertion order with pairwise distinct keys.                            *)
(***************************************************************************)
EXTENDS Integers, Sequences, FiniteSets, TLC

VARIABLES file, constructed, spec, gen_tools, tools_cache, pending, ret, net, first_gen, failures,
          history, callers, session, validation_sessions

vars ==
  <<file, constructed, spec, gen_tools, tools_cache, pending, ret, net, first_gen, failures,
    history, callers, session, validation_sessions>>

(***************************************************************************)
(* str: the operations of Python's str the code uses.                      *)
(***************************************************************************)

\* The printable ASCII characters, in code-point order (32..126); the grave
\* accent (96) is spelled out, as a string cannot hold it.
AsciiChars ==
  <<" ","!","\"","#","$","%","&","'","(",")","*","+",",","-",".","/",
    "0","1","2","3","4","5","6","7","8","9",":",";","<","=",">","?",
    "@","A","B","C","D","E","F","G","H","I","J","K","L","M","N","O",
    "P","Q","R","S","T","U","V","W","X","Y","Z","[","\\","]","^","_",
    "grave","a","b","c","d","e","f","g","h","i","j","k","l","m","n","o",
    "p","q","r","s","t","u","v","w","x","y","z","{","|","}","~">>

\* ord(c) for a printable ASCII character; "\n" is 10.
OrdTable ==
  [c \in {AsciiChars[i] : i \in DOMAIN AsciiChars} |->
     31 + (CHOOSE i \in DOMAIN AsciiChars : AsciiChars[i] = c)]

Ord(c) == IF c = "\n" THEN 10 ELSE OrdTable[c]

\* chr(n) for 32 <= n <= 126
Chr(n) == AsciiChars[n - 31]

\* str.lower() / str.upper() on one character
LowerChar(c) == IF Ord(c) >= 65 /\ Ord(c) <= 90 THEN Chr(Ord(c) + 32) ELSE c

UpperChar(c) == IF Ord(c) >= 97 /\ Ord(c) <= 122 THEN Chr(Ord(c) - 32) ELSE c

\* s.lower()
Lower(s) == [i \in 1..Len(s) |-> LowerChar(s[i])]

\* s.upper()
Upper(s) == [i \in 1..Len(s) |-> UpperChar(s[i])]

\* s[:n]
Take(s, n) == SubSeq(s, 1, IF n < Len(s) THEN n ELSE Len(s))

\* s[n:]
Drop(s, n) == SubSeq(s, n + 1, Len(s))

\* s.startswith(p)
StartsWith(s, p) == Len(p) <= Len(s) /\ SubSeq(s, 1, Len(p)) = p

\* sub in s
Contains(s, sub) ==
  \E i \in 0..(Len(s) - Len(sub)) : SubSeq(s, i + 1, i + Len(sub)) = sub

\* s.replace(old, new) for a non-empty old: every non-overlapping occurrence,
\* scanning from the left.
RECURSIVE Replace(_, _, _)
Replace(s, old, new) ==
  IF Len(s) < Len(old) THEN s
  ELSE IF SubSeq(s, 1, Len(old)) = old
       THEN new \o Replace(Drop(s, Len(old)), old, new)
       ELSE <<s[1]>> \o Replace(Drop(s, 1), old, new)

\* s.strip(c) for a one-character c
RECURSIVE LStrip(_, _)
LStrip(s, c) == IF s # <<>> /\ s[1] = c THEN LStrip(Tail(s), c) ELSE s

RECURSIVE RStrip(_, _)
RStrip(s, c) ==
  IF s # <<>> /\ s[Len(s)] = c THEN RStrip(SubSeq(s, 1, Len(s) - 1), c) ELSE s

Strip(s, c) == RStrip(LStrip(s, c), c)

\* s.rstrip(c) is RStrip, s.lstrip(c) is LStrip.

\* s.split(c) for a one-character separator: always at least one part.
RECURSIVE SplitAcc(_, _, _, _)
SplitAcc(s, c, cur, done) ==
  IF s = <<>> THEN Append(done, cur)
  ELSE IF s[1] = c THEN SplitAcc(Tail(s), c, <<>>, Append(done, cur))
       ELSE SplitAcc(Tail(s), c, Append(cur, s[1]), done)

Split(s, c) == SplitAcc(s, c, <<>>, <<>>)

\* sep.join(parts)
RECURSIVE Join(_, _)
Join(parts, sep) ==
  IF parts = <<>> THEN <<>>
  ELSE IF Len(parts) = 1 THEN parts[1]
       ELSE parts[1] \o sep \o Join(Tail(parts), sep)

\* a < b on Python strings: lexicographic by code point.
RECURSIVE StrLess(_, _)
StrLess(a, b) ==
  IF b = <<>> THEN FALSE
  ELSE IF a = <<>> THEN TRUE
       ELSE IF a[1] = b[1] THEN StrLess(Tail(a), Tail(b))
            ELSE Ord(a[1]) < Ord(b[1])

\* str(n) for an int
RECURSIVE StrNat(_)
StrNat(n) == IF n < 10 THEN <<Chr(48 + n)>> ELSE StrNat(n \div 10) \o <<Chr(48 + (n % 10))>>

StrInt(n) == IF n < 0 THEN <<"-">> \o StrNat(-n) ELSE StrNat(n)

Range(seq) == {seq[i] : i \in DOMAIN seq}

(***************************************************************************)
(* JSON values, as json.load and the tool-call arguments deliver them.     *)
(***************************************************************************)

\* dict.get(key) of an optional string-valued key: present or absent.
Some(s) == [has |-> TRUE, s |-> s]

Absent == [has |-> FALSE, s |-> <<>>]

\* d.get(key, default)
GetOr(opt, default) == IF opt.has THEN opt.s ELSE default

\* One JSON value: t is its Python type after decoding; s holds a str, n an
\* int (or a bool as 1/0), d the entries of a dict (k, v) or the items of a
\* list (v) in order.
VStr(s) == [t |-> "str", s |-> s, n |-> 0, d |-> <<>>]

VInt(n) == [t |-> "int", s |-> <<>>, n |-> n, d |-> <<>>]

VBool(b) == [t |-> "bool", s |-> <<>>, n |-> IF b THEN 1 ELSE 0, d |-> <<>>]

VNull == [t |-> "NoneType", s |-> <<>>, n |-> 0, d |-> <<>>]

VDict(entries) == [t |-> "dict", s |-> <<>>, n |-> 0, d |-> entries]

VList(items) == [t |-> "list", s |-> <<>>, n |-> 0, d |-> [i \in DOMAIN items |-> [k |-> <<>>, v |-> items[i]]]]

\* bool(v): Python truthiness
Truthy(v) ==
  CASE v.t = "str" -> v.s # <<>>
    [] v.t = "int" -> v.n # 0
    [] v.t = "bool" -> v.n = 1
    [] v.t = "NoneType" -> FALSE
    [] OTHER -> v.d # <<>>

\* repr() of a str without quotes or backslashes in it
ReprStr(s) == <<"'">> \o s \o <<"'">>

\* str(v)
Str(v) ==
  CASE v.t = "str" -> v.s
    [] v.t = "int" -> StrInt(v.n)
    [] v.t = "bool" -> IF v.n = 1 THEN <<"T","r","u","e">> ELSE <<"F","a","l","s","e">>
    [] v.t = "NoneType" -> <<"N","o","n","e">>
    [] v.t = "dict" ->
         <<"{">> \o Join([i \in DOMAIN v.d |-> ReprStr(v.d[i].k) \o <<":"," ">> \o ReprStr(v.d[i].v)], <<","," ">>) \o <<"}">>
    [] OTHER -> <<"[">> \o Join([i \in DOMAIN v.d |-> ReprStr(v.d[i].v)], <<","," ">>) \o <<"]">>

\* An ordered dict with str keys: entries [k, v]; d.get(k) and k in d.
HasKey(d, k) == \E i \in DOMAIN d : d[i].k = k

Lookup(d, k) == d[CHOOSE i \in DOMAIN d : d[i].k = k].v

\* d[k] = v: overwrite in place, or insert at the end
Put(d, k, v) ==
  IF HasKey(d, k)
  THEN [i \in DOMAIN d |-> IF d[i].k = k THEN [k |-> k, v |-> v] ELSE d[i]]
  ELSE Append(d, [k |-> k, v |-> v])

Keys(d) == [i \in DOMAIN d |-> d[i].k]

(***************************************************************************)
(* api_generator.py: IgnitionAPIGenerator                                  *)
(*                                                                         *)
(* A loaded document is [isDict, hasPaths, pathsIsDict, paths]; paths is   *)
(* the dict                                                                *)
(* path -> path item, a path item is [isDict, entries] with entries the    *)
(* dict key -> operation, an operation is [isDict, deprecated,             *)
(* operationId, summary, parameters, requestBody].                         *)
(***************************************************************************)

\* The outcome of a call: a returned value, or a raised exception.
Return(v) == [raised |-> FALSE, exc |-> "", val |-> v]

Raise(e, v) == [raised |-> TRUE, exc |-> e, val |-> v]

\* tool_name[:50]
NameCap == 50

\* _sanitize_tool_name
StrippedSegments == {<<"d","a","t","a">>, <<"a","p","i">>, <<"v","1">>}

PathParts(path) ==
  LET parts == Split(Strip(path, "/"), "/")
      kept == SelectSeq(parts, LAMBDA p : p \notin StrippedSegments)
  IN [i \in DOMAIN kept |-> Replace(Replace(kept[i], <<"{">>, <<>>), <<"}">>, <<>>)]

SanitizeToolName(path, method, operation_id) ==
  IF operation_id.has /\ operation_id.s # <<>>
  THEN Lower(Replace(Replace(operation_id.s, <<"-">>, <<"_">>), <<" ">>, <<"_">>))
  ELSE Take(Lower(method) \o <<"_">> \o Replace(Join(PathParts(path), <<"_">>), <<"-">>, <<"_">>), NameCap)

\* _extract_parameters, the loop over operation["parameters"]: acc is
\* [properties, required]; a parameter without "name" raises KeyError.
RECURSIVE ExtractDeclared(_, _)
ExtractDeclared(params, acc) ==
  IF params = <<>> THEN Return(acc)
  ELSE LET param == params[1] IN
       IF ~param.hasName THEN Raise("KeyError", acc)
       ELSE ExtractDeclared(Tail(params),
              [properties |-> Put(acc.properties, param.name,
                                  [type |-> GetOr(param.type, <<"s","t","r","i","n","g">>),
                                   description |-> GetOr(param.description, param.name \o <<" ","p","a","r","a","m","e","t","e","r">>)]),
               required |-> IF param.required THEN Append(acc.required, param.name)
                            ELSE acc.required])

\* _extract_parameters, the loop over the JSON request body's properties
RECURSIVE ExtractBody(_, _)
ExtractBody(props, properties) ==
  IF props = <<>> THEN properties
  ELSE ExtractBody(Tail(props),
         Put(properties, <<"b","o","d","y","_">> \o props[1].name,
             [type |-> GetOr(props[1].type, <<"s","t","r","i","n","g">>),
              description |-> GetOr(props[1].description, props[1].name \o <<" ","i","n"," ","r","e","q","u","e","s","t"," ","b","o","d","y">>)]))

\* _extract_parameters
ExtractParameters(operation) ==
  LET request_body == operation.requestBody
      schema(declared) ==
        IF declared.raised THEN declared
        ELSE Return([type |-> "object",
                     properties |-> IF request_body.has /\ request_body.jsonObject
                                    THEN ExtractBody(request_body.props, declared.val.properties)
                                    ELSE declared.val.properties,
                     required |-> declared.val.required,
                     additionalProperties |-> FALSE])
  IN schema(ExtractDeclared(operation.parameters, [properties |-> <<>>, required |-> <<>>]))

\* management_patterns
ManagementPatterns ==
  << <<"/","d","a","t","a","/","a","p","i","/","v","1","/","p","r","o","j","e","c","t","s">>, <<"/","d","a","t","a","/","a","p","i","/","v","1","/","t","a","g","s">>, <<"/","d","a","t","a","/","a","p","i","/","v","1","/","d","e","v","i","c","e","s">>,
     <<"/","d","a","t","a","/","a","p","i","/","v","1","/","c","o","n","n","e","c","t","i","o","n","s">>, <<"/","d","a","t","a","/","a","p","i","/","v","1","/","m","o","d","u","l","e","s">>, <<"/","d","a","t","a","/","a","p","i","/","v","1","/","c","e","r","t","i","f","i","c","a","t","e","s">>,
     <<"/","d","a","t","a","/","a","p","i","/","v","1","/","u","s","e","r","s">>, <<"/","d","a","t","a","/","a","p","i","/","v","1","/","r","o","l","e","s">>, <<"/","s","y","s","t","e","m","/","g","a","t","e","w","a","y">>,
     <<"/","d","a","t","a","/","a","p","i","/","v","1","/","a","c","t","i","v","a","t","i","o","n">>, <<"/","d","a","t","a","/","a","p","i","/","v","1","/","b","a","c","k","u","p">>, <<"/","d","a","t","a","/","a","p","i","/","v","1","/","l","o","g","s">> >>

\* ShouldIncludeEndpoint without the test of "deprecated"
ShouldIncludeDeprecatedToo(path, method, operation) ==
  \E i \in DOMAIN ManagementPatterns : StartsWith(path, ManagementPatterns[i])

\* ShouldIncludeEndpoint returning from the loop at the first pattern
ShouldIncludeFirstPatternOnly(path, method, operation) ==
  IF operation.deprecated THEN FALSE ELSE StartsWith(path, ManagementPatterns[1])

\* _should_include_endpoint, for an operation that is a dict
ShouldIncludeEndpoint(path, method, operation) ==
  IF operation.deprecated THEN FALSE
  ELSE \E i \in DOMAIN ManagementPatterns : StartsWith(path, ManagementPatterns[i])

\* the methods generate_tools keeps
HttpMethods == {<<"g","e","t">>, <<"p","o","s","t">>, <<"p","u","t">>, <<"p","a","t","c","h">>, <<"d","e","l","e","t","e">>}

\* generate_tools: the body of the inner loop for one (method, operation)
\* entry; acc is the list of tools so far.
GenerateOne(path, method, operation, tools) ==
  IF Lower(method) \notin HttpMethods THEN Return(tools)
  ELSE IF ~operation.isDict THEN Raise("AttributeError", tools)
  ELSE IF ~ShouldIncludeEndpoint(path, method, operation) THEN Return(tools)
  ELSE LET tool(input_schema) ==
             IF input_schema.raised THEN Raise(input_schema.exc, tools)
             ELSE Return(Append(tools,
                    [name |-> SanitizeToolName(path, method, operation.operationId),
                     description |-> GetOr(operation.summary, Upper(method) \o <<" ">> \o path),
                     inputSchema |-> input_schema.val,
                     _ignition_path |-> path,
                     _ignition_method |-> Upper(method),
                     _ignition_operation |-> operation]))
       IN tool(ExtractParameters(operation))

\* generate_tools: the inner loop, over path_item.items()
RECURSIVE GenerateItem(_, _, _)
GenerateItem(path, entries, tools) ==
  IF entries = <<>> THEN Return(tools)
  ELSE LET rest(one) == IF one.raised THEN one ELSE GenerateItem(path, Tail(entries), one.val)
       IN rest(GenerateOne(path, entries[1].k, entries[1].v, tools))

\* generate_tools: the outer loop, over paths.items()
RECURSIVE GeneratePaths(_, _)
GeneratePaths(paths, tools) ==
  IF paths = <<>> THEN Return(tools)
  ELSE IF ~paths[1].v.isDict THEN Raise("AttributeError", tools)
  ELSE LET rest(item) == IF item.raised THEN item ELSE GeneratePaths(Tail(paths), item.val)
       IN rest(GenerateItem(paths[1].k, paths[1].v.entries, tools))

\* tools.sort(key=lambda x: x["_ignition_path"]): list.sort is stable
RECURSIVE InsertByPath(_, _)
InsertByPath(sorted, tool) ==
  IF sorted = <<>> THEN <<tool>>
  ELSE IF StrLess(tool._ignition_path, sorted[1]._ignition_path)
       THEN <<tool>> \o sorted
       ELSE <<sorted[1]>> \o InsertByPath(Tail(sorted), tool)

RECURSIVE SortAcc(_, _)
SortAcc(tools, sorted) ==
  IF tools = <<>> THEN sorted ELSE SortAcc(Tail(tools), InsertByPath(sorted, tools[1]))

SortByPath(tools) == SortAcc(tools, <<>>)

\* GenerateTools reading self.spec["paths"]
GenerateToolsPathsRequired(doc) ==
  IF ~doc.isDict THEN Raise("AttributeError", <<>>)
  ELSE IF ~doc.hasPaths THEN Raise("KeyError", <<>>)
  ELSE IF ~doc.pathsIsDict THEN Raise("AttributeError", <<>>)
  ELSE LET sorted(built) ==
             IF built.raised THEN Raise(built.exc, <<>>) ELSE Return(SortByPath(built.val))
       IN sorted(GeneratePaths(doc.paths, <<>>))

\* generate_tools, as a function of self.spec
GenerateTools(doc) ==
  IF ~doc.isDict THEN Raise("AttributeError", <<>>)
  ELSE IF ~doc.hasPaths THEN Return(<<>>)
  ELSE IF ~doc.pathsIsDict THEN Raise("AttributeError", <<>>)
  ELSE LET sorted(built) ==
             IF built.raised THEN Raise(built.exc, <<>>) ELSE Return(SortByPath(built.val))
       IN sorted(GeneratePaths(doc.paths, <<>>))

\* _load_spec: open() raises FileNotFoundError on a missing file, json.load
\* raises JSONDecodeError on a file that is not JSON.
LoadSpec(f) ==
  CASE f.state = "absent" -> Raise("FileNotFoundError", f.doc)
    [] f.state = "notjson" -> Raise("JSONDecodeError", f.doc)
    [] OTHER -> Return(f.doc)

(***************************************************************************)
(* The documents the model is run on.                                      *)
(***************************************************************************)

\* how many path entries a document has at most
MaxPaths == 2

Param(name, required) ==
  [hasName |-> TRUE, name |-> name, type |-> Absent, description |-> Absent, required |-> required]

\* a parameter given by reference: {"$ref": "#/components/parameters/..."}
RefParam ==
  [hasName |-> FALSE, name |-> <<>>, type |-> Absent, description |-> Absent, required |-> FALSE]

NoBody == [has |-> FALSE, jsonObject |-> FALSE, props |-> <<>>]

JsonBody(names) ==
  [has |-> TRUE, jsonObject |-> TRUE,
   props |-> [i \in DOMAIN names |-> [name |-> names[i], type |-> Absent, description |-> Absent]]]

Operation(deprecated, operationId, summary, parameters, requestBody) ==
  [isDict |-> TRUE, deprecated |-> deprecated, operationId |-> operationId,
   summary |-> summary, parameters |-> parameters, requestBody |-> requestBody]

\* a value that is not an object where an operation is expected
NotAnOperation ==
  [isDict |-> FALSE, deprecated |-> FALSE, operationId |-> Absent,
   summary |-> Absent, parameters |-> <<>>, requestBody |-> NoBody]

OpGetTag ==
  Operation(FALSE, Absent, Absent, <<Param(<<"n","a","m","e">>, TRUE), Param(<<"l","i","m","i","t">>, FALSE)>>, NoBody)

OpPutTag ==
  Operation(FALSE, Some(<<"U","p","d","a","t","e","-","T","a","g">>), Some(<<"U","p","d","a","t","e"," ","t","a","g">>), <<Param(<<"n","a","m","e">>, TRUE)>>,
            JsonBody(<<<<"v","a","l","u","e">>, <<"n","a","m","e">>>>))

OpList == Operation(FALSE, Absent, Some(<<"L","i","s","t">>), <<>>, NoBody)

OpDeprecated == Operation(TRUE, Some(<<"o","l","d">>), Absent, <<>>, NoBody)

OpRefParam == Operation(FALSE, Absent, Absent, <<RefParam>>, NoBody)

PathItem(entries) == [isDict |-> TRUE, entries |-> entries]

NotAPathItem == [isDict |-> FALSE, entries |-> <<>>]

E(k, v) == [k |-> k, v |-> v]

TagsEntry ==
  E(<<"/","d","a","t","a","/","a","p","i","/","v","1","/","t","a","g","s","/","{","n","a","m","e","}">>, PathItem(<<E(<<"g","e","t">>, OpGetTag), E(<<"p","u","t">>, OpPutTag)>>))

\* a path item may carry keys that are no operations ("parameters")
ProjectsEntry ==
  E(<<"/","d","a","t","a","/","a","p","i","/","v","1","/","p","r","o","j","e","c","t","s">>,
    PathItem(<<E(<<"p","a","r","a","m","e","t","e","r","s">>, NotAnOperation), E(<<"G","E","T">>, OpList), E(<<"h","e","a","d">>, OpList)>>))

LogsEntry == E(<<"/","d","a","t","a","/","a","p","i","/","v","1","/","l","o","g","s">>, PathItem(<<E(<<"g","e","t">>, OpRefParam)>>))

\* an operation whose operationId gives the name of the custom tag tool
OpWriteTag == Operation(FALSE, Some(<<"C","r","e","a","t","e","-","O","r","-","U","p","d","a","t","e","-","T","a","g">>), Some(<<"W","r","i","t","e"," ","a"," ","t","a","g">>), <<>>, NoBody)

WriteEntry == E(<<"/","d","a","t","a","/","a","p","i","/","v","1","/","t","a","g","s","/","w","r","i","t","e">>, PathItem(<<E(<<"p","o","s","t">>, OpWriteTag)>>))

\* The path entries documents are assembled from.
PathEntries ==
  { TagsEntry, ProjectsEntry, LogsEntry, WriteEntry,
    E(<<"/","d","a","t","a","/","a","p","i","/","v","1","/","s","c","a","n","/","{","n","a","m","e","}">>, PathItem(<<E(<<"g","e","t">>, OpGetTag)>>)),
    E(<<"/","d","a","t","a","/","a","p","i","/","v","1","/","d","e","v","i","c","e","s","/","{","n","a","m","e","}">>, PathItem(<<E(<<"d","e","l","e","t","e">>, OpDeprecated), E(<<"p","o","s","t">>, OpGetTag)>>)),
    E(<<"/","d","a","t","a","/","a","p","i","/","v","1","/","m","o","d","u","l","e","s">>, PathItem(<<E(<<"g","e","t">>, NotAnOperation)>>)),
    E(<<"/","s","y","s","t","e","m","/","g","a","t","e","w","a","y">>, NotAPathItem) }

\* the sequences over S of pairwise distinct elements, up to length n
RECURSIVE DistinctSeqs(_, _)
DistinctSeqs(S, n) ==
  IF n = 0 THEN {<<>>}
  ELSE LET shorter == DistinctSeqs(S, n - 1) IN
       shorter \cup UNION {{Append(q, x) : x \in S \ Range(q)} : q \in shorter}

Document(paths) == [isDict |-> TRUE, hasPaths |-> TRUE, pathsIsDict |-> TRUE, paths |-> paths]

\* {"openapi": "3.0.0"}: a document with no "paths" key
NoPathsDocument == [isDict |-> TRUE, hasPaths |-> FALSE, pathsIsDict |-> FALSE, paths |-> <<>>]

\* {"paths": []}: "paths" is not a mapping
PathsListDocument == [isDict |-> TRUE, hasPaths |-> TRUE, pathsIsDict |-> FALSE, paths |-> <<>>]

\* []: the document is not an object
ArrayDocument == [isDict |-> FALSE, hasPaths |-> FALSE, pathsIsDict |-> FALSE, paths |-> <<>>]

Documents ==
  {Document(q) : q \in DistinctSeqs(PathEntries, MaxPaths)}
    \cup {NoPathsDocument, PathsListDocument, ArrayDocument}

\* what is at spec_path: a JSON file, a file that is not JSON, or nothing
Files ==
  {[state |-> "json", doc |-> d] : d \in Documents}
    \cup {[state |-> "absent", doc |-> NoPathsDocument], [state |-> "notjson", doc |-> NoPathsDocument]}

(***************************************************************************)
(* config.py: Settings, and ignition_client.py: IgnitionClient             *)
(***************************************************************************)

\* the attributes class Settings declares, with their defaults
Settings ==
  << E("ignition_gateway_url", <<"h","t","t","p",":","/","/","l","o","c","a","l","h","o","s","t",":","8","0","8","8">>),
     E("ignition_username", <<"a","d","m","i","n">>),
     E("ignition_password", <<"p","a","s","s","w","o","r","d">>),
     E("ignition_api_key", <<>>) >>

\* settings.<attr>: AttributeError for an attribute Settings does not declare
SettingsAttr(attr) ==
  IF HasKey(Settings, attr) THEN Return(Lookup(Settings, attr)) ELSE Raise("AttributeError", <<>>)

\* base64.b64encode
B64Alphabet ==
  <<"A","B","C","D","E","F","G","H","I","J","K","L","M","N","O","P","Q","R","S","T","U","V","W","X","Y","Z","a","b","c","d","e","f","g","h","i","j","k","l","m","n","o","p","q","r","s","t","u","v","w","x","y","z","0","1","2","3","4","5","6","7","8","9","+","/">>

\* the four characters for up to three bytes; n is how many bytes are real
B64Group(b1, b2, b3, n) ==
  <<B64Alphabet[(b1 \div 4) + 1],
    B64Alphabet[((b1 % 4) * 16) + (b2 \div 16) + 1],
    IF n >= 2 THEN B64Alphabet[((b2 % 16) * 4) + (b3 \div 64) + 1] ELSE "=",
    IF n >= 3 THEN B64Alphabet[(b3 % 64) + 1] ELSE "=">>

RECURSIVE B64Bytes(_)
B64Bytes(b) ==
  IF b = <<>> THEN <<>>
  ELSE IF Len(b) = 1 THEN B64Group(b[1], 0, 0, 1)
  ELSE IF Len(b) = 2 THEN B64Group(b[1], b[2], 0, 2)
  ELSE B64Group(b[1], b[2], b[3], 3) \o B64Bytes(SubSeq(b, 4, Len(b)))

B64Encode(s) == B64Bytes([i \in DOMAIN s |-> Ord(s[i])])

\* IgnitionClient.__init__: the credentials a session holds
NewClient ==
  [gateway_url |-> RStrip(SettingsAttr("ignition_gateway_url").val, "/"),
   username |-> SettingsAttr("ignition_username").val,
   password |-> SettingsAttr("ignition_password").val,
   api_key |-> SettingsAttr("ignition_api_key").val]

\* _create_auth_headers returning the headers computed once, at construction
CreateAuthHeadersAtConstruction(client) ==
  IF NewClient.api_key # <<>>
  THEN <<E(<<"X","-","I","g","n","i","t","i","o","n","-","A","P","I","-","T","o","k","e","n">>, NewClient.api_key)>>
  ELSE <<E(<<"A","u","t","h","o","r","i","z","a","t","i","o","n">>, <<"B","a","s","i","c"," ">> \o B64Encode(NewClient.username \o <<":">> \o NewClient.password))>>

\* _create_auth_headers
CreateAuthHeaders(client) ==
  IF client.api_key # <<>>
  THEN <<E(<<"X","-","I","g","n","i","t","i","o","n","-","A","P","I","-","T","o","k","e","n">>, client.api_key)>>
  ELSE <<E(<<"A","u","t","h","o","r","i","z","a","t","i","o","n">>, <<"B","a","s","i","c"," ">> \o B64Encode(client.username \o <<":">> \o client.password))>>

\* headers.update(other)
RECURSIVE Update(_, _)
Update(d, other) ==
  IF other = <<>> THEN d ELSE Update(Put(d, other[1].k, other[1].v), Tail(other))

\* What the gateway does with one request: the connection fails with a
\* message, or a response arrives: status, content type, and a body that
\* decodes as JSON (data) or does not.
NetworkError(msg) ==
  [failed |-> TRUE, msg |-> msg, status |-> 0, content_type |-> <<>>, decodes |-> FALSE,
   data |-> <<>>, text |-> <<>>]

Response(status, content_type, decodes, data, text) ==
  [failed |-> FALSE, msg |-> <<>>, status |-> status, content_type |-> content_type,
   decodes |-> decodes, data |-> data, text |-> text]

Outcomes ==
  { Response(200, <<"a","p","p","l","i","c","a","t","i","o","n","/","j","s","o","n",";"," ","c","h","a","r","s","e","t","=","u","t","f","-","8">>, TRUE, <<E(<<"o","k">>, <<"1">>)>>, <<"{","\"","o","k","\"",":"," ","\"","1","\"","}">>),
    Response(200, <<"t","e","x","t","/","p","l","a","i","n">>, FALSE, <<>>, <<"d","o","n","e">>),
    Response(200, <<"a","p","p","l","i","c","a","t","i","o","n","/","j","s","o","n">>, FALSE, <<>>, <<"<","h","t","m","l",">">>),
    Response(500, <<"a","p","p","l","i","c","a","t","i","o","n","/","j","s","o","n">>, TRUE, <<E(<<"e","r","r","o","r">>, <<"b","o","o","m">>)>>, <<"{","\"","e","r","r","o","r","\"",":"," ","\"","b","o","o","m","\"","}">>),
    NetworkError(<<"c","o","n","n","e","c","t","i","o","n"," ","r","e","f","u","s","e","d">>) }

\* raise_for_status() raising for 4xx and 5xx alone
IsNotClientOrServerError(status) == status < 400

\* response.raise_for_status(): HTTPStatusError unless the status is 2xx
IsSuccess(status) == status >= 200 /\ status <= 299

\* _request, after the request was sent: what it returns or raises for an
\* outcome.  A raised exception carries its message.
RequestResult(outcome) ==
  IF outcome.failed THEN Raise("ConnectError", outcome.msg)
  ELSE IF ~IsSuccess(outcome.status)
       THEN Raise("HTTPStatusError", <<"S","e","r","v","e","r"," ","e","r","r","o","r"," ","'">> \o StrInt(outcome.status) \o <<"'"," ","f","o","r"," ","u","r","l">>)
  ELSE IF StartsWith(outcome.content_type, <<"a","p","p","l","i","c","a","t","i","o","n","/","j","s","o","n">>)
       THEN IF outcome.decodes THEN Return(outcome.data)
            ELSE Raise("JSONDecodeError", <<"E","x","p","e","c","t","i","n","g"," ","v","a","l","u","e",":"," ","l","i","n","e"," ","1"," ","c","o","l","u","m","n"," ","1"," ","(","c","h","a","r"," ","0",")">>)
  ELSE Return(<<E(<<"s","t","a","t","u","s">>, <<"s","u","c","c","e","s","s">>), E(<<"c","o","n","t","e","n","t">>, outcome.text)>>)

\* _request: the request as sent, from its arguments
SentRequest(client, method, endpoint, headers, params, json) ==
  [method |-> method, url |-> endpoint,
   headers |-> Put(Update(headers, CreateAuthHeaders(client)), <<"C","o","n","t","e","n","t","-","T","y","p","e">>, <<"a","p","p","l","i","c","a","t","i","o","n","/","j","s","o","n">>),
   params |-> params, json |-> json]

\* json.dumps(result, indent=2) of a flat object with str values
JsonDumps(result) ==
  IF result = <<>> THEN <<"{","}">>
  ELSE <<"{","\n">>
       \o Join([i \in DOMAIN result |-> <<" "," ","\"">> \o result[i].k \o <<"\"",":"," ","\"">> \o result[i].v \o <<"\"">>], <<",","\n">>)
       \o <<"\n","}">>

(***************************************************************************)
(* ignition_tools.py: IgnitionTools                                        *)
(***************************************************************************)

\* CallToolResult(content=[TextContent(type="text", text=...)], isError=...)
CallToolResult(isError, text) == [isError |-> isError, text |-> text]

\* _error_result
ErrorResult(message) == CallToolResult(TRUE, message)

\* What one operation did with the transport: sessions constructed
\* (IgnitionClient()), entered (__aenter__), exited (__aexit__), and the
\* requests handed to the HTTP client with what became of each, in order.
NoTransport == [constructed |-> 0, entered |-> 0, exited |-> 0, requests |-> <<>>, outcomes |-> <<>>]

\* a block that releases the session only when it ends without an exception
OneSessionKeptOnError(requests, outcomes) ==
  [constructed |-> 1, entered |-> 1,
   exited |-> IF requests = <<>> \/ \E i \in DOMAIN outcomes : RequestResult(outcomes[i]).raised
              THEN 0 ELSE 1,
   requests |-> requests, outcomes |-> outcomes]

\* async with IgnitionClient() as client: a block that made the requests and
\* got the outcomes
OneSession(requests, outcomes) ==
  [constructed |-> 1, entered |-> 1, exited |-> 1, requests |-> requests, outcomes |-> outcomes]

\* a keyword argument of _request: passed (and not None) or not
NoKwarg == [has |-> FALSE, isObject |-> FALSE, entries |-> <<>>, value |-> VNull]

ObjectKwarg(entries) == [has |-> TRUE, isObject |-> TRUE, entries |-> entries, value |-> VNull]

ValueKwarg(v) == [has |-> TRUE, isObject |-> FALSE, entries |-> <<>>, value |-> v]

Prop(type, description) == [type |-> type, description |-> description]

\* _build_custom_tool_definitions (a property's union type is written a|b;
\* the grave accents of the tagPath description are left out)
CustomToolDefs ==
  << [name |-> <<"c","r","e","a","t","e","_","o","r","_","u","p","d","a","t","e","_","t","a","g">>,
      description |-> <<"C","r","e","a","t","e"," ","o","r"," ","u","p","d","a","t","e"," ","a","n"," ","I","g","n","i","t","i","o","n"," ","t","a","g"," ","u","s","i","n","g"," ","a"," ","c","o","n","f","i","g","u","r","e","d"," ","W","e","b","D","e","v"," ","e","n","d","p","o","i","n","t",".">>,
      inputSchema |->
        [type |-> "object",
         properties |->
           << E(<<"t","a","g","P","a","t","h">>, Prop(<<"s","t","r","i","n","g">>, <<"F","u","l","l","y"," ","q","u","a","l","i","f","i","e","d"," ","I","g","n","i","t","i","o","n"," ","t","a","g"," ","p","a","t","h",","," ","e",".","g","."," ","[","d","e","f","a","u","l","t","]","F","o","l","d","e","r","/","T","a","g","N","a","m","e",".">>)),
              E(<<"v","a","l","u","e">>, Prop(<<"s","t","r","i","n","g","|","n","u","m","b","e","r","|","b","o","o","l","e","a","n","|","o","b","j","e","c","t","|","a","r","r","a","y","|","n","u","l","l">>, <<"V","a","l","u","e"," ","t","o"," ","w","r","i","t","e"," ","w","h","e","n"," ","a","u","t","o","-","g","e","n","e","r","a","t","i","n","g"," ","t","h","e"," ","p","a","y","l","o","a","d",".">>)),
              E(<<"d","a","t","a","T","y","p","e">>, Prop(<<"s","t","r","i","n","g">>, <<"O","p","t","i","o","n","a","l"," ","I","g","n","i","t","i","o","n"," ","d","a","t","a"," ","t","y","p","e"," ","(","S","t","r","i","n","g",","," ","I","n","t","e","g","e","r",","," ","B","o","o","l","e","a","n",","," ","e","t","c",".",")",".">>)),
              E(<<"a","t","t","r","i","b","u","t","e","s">>, Prop(<<"o","b","j","e","c","t">>, <<"O","p","t","i","o","n","a","l"," ","t","a","g"," ","a","t","t","r","i","b","u","t","e"," ","o","v","e","r","r","i","d","e","s"," ","s","u","c","h"," ","a","s"," ","E","n","g","U","n","i","t"," ","o","r"," ","T","o","o","l","t","i","p",".">>)),
              E(<<"r","e","s","o","u","r","c","e","P","a","t","h">>, Prop(<<"s","t","r","i","n","g">>, <<"O","v","e","r","r","i","d","e"," ","W","e","b","D","e","v"," ","r","e","s","o","u","r","c","e"," ","p","a","t","h"," ","r","e","l","a","t","i","v","e"," ","t","o"," ","/","s","y","s","t","e","m","/","w","e","b","d","e","v",".">>)),
              E(<<"h","t","t","p","M","e","t","h","o","d">>, Prop(<<"s","t","r","i","n","g">>, <<"H","T","T","P"," ","m","e","t","h","o","d"," ","t","o"," ","u","s","e"," ","f","o","r"," ","t","h","e"," ","W","e","b","D","e","v"," ","c","a","l","l"," ","(","d","e","f","a","u","l","t","s"," ","t","o"," ","c","o","n","f","i","g","u","r","a","t","i","o","n",")",".">>)),
              E(<<"p","a","y","l","o","a","d","O","v","e","r","r","i","d","e">>, Prop(<<"o","b","j","e","c","t","|","a","r","r","a","y">>, <<"S","e","n","d"," ","t","h","i","s"," ","J","S","O","N"," ","p","a","y","l","o","a","d"," ","d","i","r","e","c","t","l","y"," ","i","n","s","t","e","a","d"," ","o","f"," ","u","s","i","n","g"," ","t","a","g","P","a","t","h","/","v","a","l","u","e",".">>)),
              E(<<"q","u","e","r","y","P","a","r","a","m","s">>, Prop(<<"o","b","j","e","c","t">>, <<"O","p","t","i","o","n","a","l"," ","q","u","e","r","y"," ","s","t","r","i","n","g"," ","p","a","r","a","m","e","t","e","r","s"," ","f","o","r"," ","t","h","e"," ","W","e","b","D","e","v"," ","r","e","q","u","e","s","t",".">>)),
              E(<<"h","e","a","d","e","r","s">>, Prop(<<"o","b","j","e","c","t">>, <<"O","p","t","i","o","n","a","l"," ","a","d","d","i","t","i","o","n","a","l"," ","h","e","a","d","e","r","s"," ","t","o"," ","i","n","c","l","u","d","e"," ","i","n"," ","t","h","e"," ","r","e","q","u","e","s","t",".">>)),
              E(<<"v","a","l","u","e","T","i","m","e","s","t","a","m","p">>, Prop(<<"s","t","r","i","n","g">>, <<"O","p","t","i","o","n","a","l"," ","I","S","O","-","8","6","0","1"," ","t","i","m","e","s","t","a","m","p"," ","a","s","s","o","c","i","a","t","e","d"," ","w","i","t","h"," ","t","h","e"," ","t","a","g"," ","v","a","l","u","e",".">>)),
              E(<<"q","u","a","l","i","t","y">>, Prop(<<"s","t","r","i","n","g">>, <<"O","p","t","i","o","n","a","l"," ","q","u","a","l","i","t","y"," ","c","o","d","e"," ","f","o","r"," ","t","h","e"," ","t","a","g"," ","w","r","i","t","e"," ","(","e",".","g","."," ","'","G","o","o","d","'",")",".">>)) >>,
         required |-> <<>>,
         additionalProperties |-> FALSE]] >>

\* IsCustomTool giving way to a generated tool of the same name once the
\* cache holds one
IsCustomToolUnlessGenerated(name) ==
  /\ \E i \in DOMAIN CustomToolDefs : CustomToolDefs[i].name = name
  /\ ~(tools_cache.set /\ \E i \in DOMAIN tools_cache.tools : tools_cache.tools[i].name = name)

\* name in self.custom_tool_defs
IsCustomTool(name) == \E i \in DOMAIN CustomToolDefs : CustomToolDefs[i].name = name

\* custom_tool_handlers
CustomToolHandlers == {<<"c","r","e","a","t","e","_","o","r","_","u","p","d","a","t","e","_","t","a","g">>}

\* Tool(name=..., description=..., inputSchema=...)
Tool(tool_def) ==
  [name |-> tool_def.name, description |-> tool_def.description, inputSchema |-> tool_def.inputSchema]

\* arguments.get(key)
Get(arguments, key) == IF HasKey(arguments, key) THEN Lookup(arguments, key) ELSE VNull

\* RouteArgument with "if" for "elif": a path parameter is substituted and
\* falls through to the query mapping
RouteArgumentPathAlsoQuery(path, acc, key, value) ==
  IF StartsWith(key, <<"b","o","d","y","_">>)
  THEN [acc EXCEPT !.body_params = Put(@, Drop(key, 5), value)]
  ELSE IF Contains(path, <<"{">> \o key \o <<"}">>)
       THEN [acc EXCEPT !.final_path = Replace(@, <<"{">> \o key \o <<"}">>, Str(value)),
                        !.path_params = Put(@, key, value),
                        !.query_params = Put(@, key, value)]
       ELSE [acc EXCEPT !.query_params = Put(@, key, value)]

\* _execute_api_call: one iteration of the loop over arguments.items()
RouteArgument(path, acc, key, value) ==
  IF StartsWith(key, <<"b","o","d","y","_">>)
  THEN [acc EXCEPT !.body_params = Put(@, Drop(key, 5), value)]
  ELSE IF Contains(path, <<"{">> \o key \o <<"}">>)
       THEN [acc EXCEPT !.final_path = Replace(@, <<"{">> \o key \o <<"}">>, Str(value)),
                        !.path_params = Put(@, key, value)]
       ELSE [acc EXCEPT !.query_params = Put(@, key, value)]

\* _execute_api_call: the loop
RECURSIVE RouteArguments(_, _, _)
RouteArguments(path, acc, arguments) ==
  IF arguments = <<>> THEN acc
  ELSE RouteArguments(path, RouteArgument(path, acc, arguments[1].k, arguments[1].v), Tail(arguments))

\* _execute_api_call: the buckets for a tool and an argument mapping
Route(tool_def, arguments) ==
  RouteArguments(tool_def._ignition_path,
                 [final_path |-> tool_def._ignition_path, path_params |-> <<>>,
                  body_params |-> <<>>, query_params |-> <<>>],
                 arguments)

\* _execute_api_call: the request handed to client._request
ApiRequest(client, tool_def, arguments) ==
  LET request(r) ==
        SentRequest(client, tool_def._ignition_method, r.final_path, <<>>,
                    IF r.query_params # <<>> THEN ObjectKwarg(r.query_params) ELSE NoKwarg,
                    IF r.body_params # <<>> THEN ObjectKwarg(r.body_params) ELSE NoKwarg)
  IN request(Route(tool_def, arguments))

\* the entries of a dict value, as keyword-argument entries
DictEntries(v) == [i \in DOMAIN v.d |-> E(v.d[i].k, VStr(v.d[i].v))]

\* create_or_update_tag: payload
TagPayload(arguments) ==
  LET payload_override == Get(arguments, <<"p","a","y","l","o","a","d","O","v","e","r","r","i","d","e">>)
      opt(key, name) == IF Truthy(Get(arguments, key)) THEN <<E(name, Get(arguments, key))>> ELSE <<>>
  IN IF payload_override.t # "NoneType" THEN ValueKwarg(payload_override)
     ELSE ObjectKwarg(<<E(<<"p","a","t","h">>, Get(arguments, <<"t","a","g","P","a","t","h">>)), E(<<"v","a","l","u","e">>, Get(arguments, <<"v","a","l","u","e">>))>>
                      \o opt(<<"d","a","t","a","T","y","p","e">>, <<"d","a","t","a","T","y","p","e">>) \o opt(<<"a","t","t","r","i","b","u","t","e","s">>, <<"a","t","t","r","i","b","u","t","e","s">>)
                      \o opt(<<"v","a","l","u","e","T","i","m","e","s","t","a","m","p">>, <<"v","a","l","u","e","T","i","m","e","s","t","a","m","p">>) \o opt(<<"q","u","a","l","i","t","y">>, <<"q","u","a","l","i","t","y">>))

\* create_or_update_tag: (method or settings.webdev_tag_method or "POST").upper()
WebdevMethod(method) ==
  IF Truthy(method) THEN Return(Upper(method.s))
  ELSE LET upper(configured) ==
             IF configured.raised THEN configured
             ELSE Return(Upper(IF configured.val # <<>> THEN configured.val ELSE <<"P","O","S","T">>))
       IN upper(SettingsAttr("webdev_tag_method"))

\* _build_webdev_path
BuildWebdevPath(resource_path) ==
  LET qualified(resource) ==
        IF resource = <<>>
        THEN Raise("ValueError",
                   <<"W","e","b","D","e","v"," ","t","a","g"," ","e","n","d","p","o","i","n","t"," ","n","o","t"," ","c","o","n","f","i","g","u","r","e","d","."," ","S","e","t"," ","I","G","N","I","T","I","O","N","_","M","C","P","_","W","E","B","D","E","V","_","T","A","G","_","E","N","D","P","O","I","N","T"," ","o","r"," ","p","r","o","v","i","d","e"," ","r","e","s","o","u","r","c","e","P","a","t","h",".">>)
        ELSE Return(<<"/","s","y","s","t","e","m","/","w","e","b","d","e","v","/">> \o resource)
      stripped(chosen) == IF chosen.raised THEN chosen ELSE qualified(LStrip(chosen.val, "/"))
  IN stripped(IF Truthy(resource_path)
              THEN IF resource_path.t = "str" THEN Return(resource_path.s)
                   ELSE Raise("AttributeError", <<"o","b","j","e","c","t"," ","h","a","s"," ","n","o"," ","a","t","t","r","i","b","u","t","e"," ","'","l","s","t","r","i","p","'">>)
              ELSE SettingsAttr("webdev_tag_endpoint"))

\* create_or_update_tag and call_webdev, up to the call of _request: the
\* request, or the exception raised before one is made
WebdevRequest(client, arguments) ==
  LET request(http_method, path, headers, query_params) ==
        IF http_method.raised THEN http_method
        ELSE IF path.raised THEN path
        ELSE Return(SentRequest(client, Upper(http_method.val), path.val,
                                IF Truthy(headers) THEN headers.d ELSE <<>>,
                                IF query_params.t = "NoneType" THEN NoKwarg
                                ELSE ObjectKwarg(DictEntries(query_params)),
                                TagPayload(arguments)))
  IN request(WebdevMethod(Get(arguments, <<"h","t","t","p","M","e","t","h","o","d">>)),
             BuildWebdevPath(Get(arguments, <<"r","e","s","o","u","r","c","e","P","a","t","h">>)),
             Get(arguments, <<"h","e","a","d","e","r","s">>),
             Get(arguments, <<"q","u","e","r","y","P","a","r","a","m","s">>))

\* TagValidationError with the check of payloadOverride alone
TagValidationErrorOverrideOnly(arguments) ==
  IF Get(arguments, <<"p","a","y","l","o","a","d","O","v","e","r","r","i","d","e">>).t \notin {"NoneType", "dict", "list"}
  THEN <<"p","a","y","l","o","a","d","O","v","e","r","r","i","d","e"," ","m","u","s","t"," ","b","e"," ","a","n"," ","o","b","j","e","c","t"," ","o","r"," ","a","r","r","a","y"," ","w","h","e","n"," ","p","r","o","v","i","d","e","d">>
  ELSE <<>>

\* _tool_create_or_update_tag: the local checks; the message of the first
\* one that fails, or <<>>
TagValidationError(arguments) ==
  LET payload_override == Get(arguments, <<"p","a","y","l","o","a","d","O","v","e","r","r","i","d","e">>)
      isNone(v) == v.t = "NoneType"
  IN IF ~isNone(payload_override) /\ payload_override.t \notin {"dict", "list"}
     THEN <<"p","a","y","l","o","a","d","O","v","e","r","r","i","d","e"," ","m","u","s","t"," ","b","e"," ","a","n"," ","o","b","j","e","c","t"," ","o","r"," ","a","r","r","a","y"," ","w","h","e","n"," ","p","r","o","v","i","d","e","d">>
     ELSE IF ~isNone(Get(arguments, <<"a","t","t","r","i","b","u","t","e","s">>)) /\ Get(arguments, <<"a","t","t","r","i","b","u","t","e","s">>).t # "dict"
     THEN <<"a","t","t","r","i","b","u","t","e","s"," ","m","u","s","t"," ","b","e"," ","a","n"," ","o","b","j","e","c","t"," ","w","h","e","n"," ","p","r","o","v","i","d","e","d">>
     ELSE IF ~isNone(Get(arguments, <<"h","e","a","d","e","r","s">>)) /\ Get(arguments, <<"h","e","a","d","e","r","s">>).t # "dict"
     THEN <<"h","e","a","d","e","r","s"," ","m","u","s","t"," ","b","e"," ","a","n"," ","o","b","j","e","c","t"," ","o","f"," ","s","t","r","i","n","g"," ","v","a","l","u","e","s"," ","w","h","e","n"," ","p","r","o","v","i","d","e","d">>
     ELSE IF ~isNone(Get(arguments, <<"q","u","e","r","y","P","a","r","a","m","s">>)) /\ Get(arguments, <<"q","u","e","r","y","P","a","r","a","m","s">>).t # "dict"
     THEN <<"q","u","e","r","y","P","a","r","a","m","s"," ","m","u","s","t"," ","b","e"," ","a","n"," ","o","b","j","e","c","t"," ","w","h","e","n"," ","p","r","o","v","i","d","e","d">>
     ELSE IF ~isNone(Get(arguments, <<"h","t","t","p","M","e","t","h","o","d">>)) /\ Get(arguments, <<"h","t","t","p","M","e","t","h","o","d">>).t # "str"
     THEN <<"h","t","t","p","M","e","t","h","o","d"," ","m","u","s","t"," ","b","e"," ","a"," ","s","t","r","i","n","g"," ","w","h","e","n"," ","p","r","o","v","i","d","e","d">>
     ELSE IF isNone(payload_override) /\ ~Truthy(Get(arguments, <<"t","a","g","P","a","t","h">>))
     THEN <<"t","a","g","P","a","t","h"," ","i","s"," ","r","e","q","u","i","r","e","d"," ","w","h","e","n"," ","p","a","y","l","o","a","d","O","v","e","r","r","i","d","e"," ","i","s"," ","n","o","t"," ","p","r","o","v","i","d","e","d">>
     ELSE IF isNone(payload_override) /\ ~HasKey(arguments, <<"v","a","l","u","e">>)
     THEN <<"v","a","l","u","e"," ","i","s"," ","r","e","q","u","i","r","e","d"," ","w","h","e","n"," ","p","a","y","l","o","a","d","O","v","e","r","r","i","d","e"," ","i","s"," ","n","o","t"," ","p","r","o","v","i","d","e","d">>
     ELSE <<>>

\* except ValueError: json.JSONDecodeError is a subclass of ValueError
IsValueError(exc) == exc \in {"ValueError", "JSONDecodeError"}

\* the outcome of a handler: it returns a result or raises, and what it did
\* with the transport
Handled(out, transport) == [out |-> out, net |-> transport]

\* _tool_create_or_update_tag
ToolCreateOrUpdateTag(arguments, outcome) ==
  LET failed(exc) ==
        IF IsValueError(exc.exc) THEN ErrorResult(exc.val)
        ELSE ErrorResult(<<"E","r","r","o","r"," ","e","x","e","c","u","t","i","n","g"," ","c","r","e","a","t","e","_","o","r","_","u","p","d","a","t","e","_","t","a","g","."," ","P","l","e","a","s","e"," ","v","e","r","i","f","y"," ","t","h","e"," ","W","e","b","D","e","v"," ","c","o","n","f","i","g","u","r","a","t","i","o","n",".">>)
      handle(invalid, request, response) ==
        IF invalid # <<>> THEN Handled(Return(ErrorResult(invalid)), NoTransport)
        ELSE IF request.raised THEN Handled(Return(failed(request)), OneSession(<<>>, <<>>))
        ELSE IF response.raised
             THEN Handled(Return(failed(response)), OneSession(<<request.val>>, <<outcome>>))
        ELSE Handled(Return(CallToolResult(FALSE, JsonDumps(response.val))),
                     OneSession(<<request.val>>, <<outcome>>))
  IN handle(TagValidationError(arguments), WebdevRequest(NewClient, arguments), RequestResult(outcome))

\* ToolApiCall with the exception's message in the returned text
ToolApiCallLeaky(name, tool_def, arguments, outcome) ==
  LET result(response) ==
        IF response.raised
        THEN CallToolResult(TRUE, <<"E","r","r","o","r"," ","e","x","e","c","u","t","i","n","g"," ">> \o name \o <<":"," ">> \o response.val)
        ELSE CallToolResult(FALSE, JsonDumps(response.val))
  IN Handled(Return(result(RequestResult(outcome))),
             OneSession(<<ApiRequest(NewClient, tool_def, arguments)>>, <<outcome>>))

\* call_tool: the generated-tool path, for a tool found in the cache
ToolApiCall(name, tool_def, arguments, outcome) ==
  LET result(response) ==
        IF response.raised
        THEN CallToolResult(TRUE, <<"E","r","r","o","r"," ","e","x","e","c","u","t","i","n","g"," ">> \o name \o <<"."," ","P","l","e","a","s","e"," ","c","o","n","t","a","c","t"," ","s","u","p","p","o","r","t",".">>)
        ELSE CallToolResult(FALSE, JsonDumps(response.val))
  IN Handled(Return(result(RequestResult(outcome))),
             OneSession(<<ApiRequest(NewClient, tool_def, arguments)>>, <<outcome>>))

\* the search of the cache without the break: the last tool with the name
FindToolLast(cache, name) ==
  IF \E i \in DOMAIN cache : cache[i].name = name
  THEN CHOOSE i \in DOMAIN cache : cache[i].name = name /\ \A j \in (i + 1)..Len(cache) : cache[j].name # name
  ELSE 0

\* call_tool: the search of the cache for the first tool with the name;
\* 0 if there is none
FindTool(cache, name) ==
  IF \E i \in DOMAIN cache : cache[i].name = name
  THEN CHOOSE i \in DOMAIN cache : cache[i].name = name /\ \A j \in 1..(i - 1) : cache[j].name # name
  ELSE 0

\* get_available_tools_summary: the category of a generated tool
Category(path) ==
  LET path_parts == Split(path, "/") IN
  IF Len(path_parts) > 4 THEN path_parts[5] ELSE <<"g","e","n","e","r","a","l">>

SummaryEntry(tool, method, path) ==
  [name |-> tool.name, description |-> tool.description, method |-> method, path |-> path]

\* categories[category].append(entry), creating the list when it is missing
AppendTo(categories, category, entry) ==
  Put(categories, category,
      IF HasKey(categories, category) THEN Append(Lookup(categories, category), entry) ELSE <<entry>>)

RECURSIVE Categorize(_, _)
Categorize(tools, categories) ==
  IF tools = <<>> THEN categories
  ELSE Categorize(Tail(tools),
         AppendTo(categories, Category(tools[1]._ignition_path),
                  SummaryEntry(tools[1], tools[1]._ignition_method, tools[1]._ignition_path)))

RECURSIVE CategorizeCustom(_, _)
CategorizeCustom(defs, categories) ==
  IF defs = <<>> THEN categories
  ELSE CategorizeCustom(Tail(defs), AppendTo(categories, <<"c","u","s","t","o","m">>, SummaryEntry(defs[1], <<"C","U","S","T","O","M">>, <<"w","e","b","d","e","v">>)))

\* ToolsSummary with total_tools counting the generated tools alone
ToolsSummaryGeneratedOnly(cache) ==
  [total_tools |-> Len(cache),
   categories |-> CategorizeCustom(CustomToolDefs, Categorize(cache, <<>>))]

\* get_available_tools_summary, once the cache is built
ToolsSummary(cache) ==
  [total_tools |-> Len(cache) + Len(CustomToolDefs),
   categories |-> CategorizeCustom(CustomToolDefs, Categorize(cache, <<>>))]

\* generated tools listed before the custom ones
ListToolsGeneratedFirst(cache) ==
  [i \in DOMAIN cache |-> Tool(cache[i])] \o [i \in DOMAIN CustomToolDefs |-> Tool(CustomToolDefs[i])]

\* get_tools, once the cache is built
ListTools(cache) ==
  [i \in DOMAIN CustomToolDefs |-> Tool(CustomToolDefs[i])] \o [i \in DOMAIN cache |-> Tool(cache[i])]

\* generate_tools collecting into self.tools instead of a fresh list
GenerateToolsIntoSelf(self) ==
  LET sorted(built) == IF built.raised THEN Raise(built.exc, <<>>) ELSE Return(SortByPath(built.val))
      left(out) == [out |-> out, self |-> [self EXCEPT !.tools = out.val]]
  IN left(IF ~self.spec.isDict \/ (self.spec.hasPaths /\ ~self.spec.pathsIsDict)
          THEN Raise("AttributeError", <<>>)
          ELSE sorted(GeneratePaths(self.spec.paths, self.tools)))

\* IgnitionAPIGenerator.generate_tools as a method: what it returns, and the
\* generator (spec, tools) it leaves
GenerateToolsMethod(self) == [out |-> GenerateTools(self.spec), self |-> self]

(***************************************************************************)
(* The state: the file at spec_path; whether IgnitionTools() was called    *)
(* and how it ended; the generator's fields spec and tools; the            *)
(* dispatcher's tools_cache (set = it is not None); the last operation     *)
(* with what it returned or raised (ret) and what it did with the          *)
(* transport (net); pending, a tool call that has arrived and is not yet   *)
(* executed; first_gen, the outcome of the first invocation of             *)
(* generate_tools on this generator; failures, for each generated tool the *)
(* first result call_tool returned when the transport failed, with the     *)
(* exception _request raised; history, what the dispatcher has done so     *)
(* far: how often it invoked generate_tools, the values tools_cache has    *)
(* held, and, where they are counted, the lengths get_tools returned and   *)
(* the totals the summary gave;                                            *)
(* callers, the calls in progress when calls run concurrently; session,    *)
(* an IgnitionClient used directly with the requests made on it.           *)
(***************************************************************************)

NoResult == CallToolResult(FALSE, <<>>)

NoSummary == [total_tools |-> 0, categories |-> <<>>]

Ret(op, name, arguments, out, result, tools, summary) ==
  [op |-> op, name |-> name, arguments |-> arguments, raised |-> out.raised, exc |-> out.exc,
   result |-> result, tools |-> tools, summary |-> summary]

NoCache == [set |-> FALSE, tools |-> <<>>]

NotGenerated == [set |-> FALSE, raised |-> FALSE, exc |-> "", tools |-> <<>>]

\* the outcome of an invocation of generate_tools, kept if it is the first
Remember(first, out) ==
  IF first.set THEN first
  ELSE [set |-> TRUE, raised |-> out.raised, exc |-> out.exc, tools |-> out.val]

\* if self.tools_cache is None: self._generate_tools_cache()
EnsureCache(cache, generator, first) ==
  IF cache.set
  THEN [raised |-> FALSE, exc |-> "", cache |-> cache, generator |-> generator, first |-> first,
        invoked |-> FALSE]
  ELSE LET cached(g) ==
             [raised |-> g.out.raised, exc |-> g.out.exc,
              cache |-> IF g.out.raised THEN cache ELSE [set |-> TRUE, tools |-> g.out.val],
              generator |-> g.self, first |-> Remember(first, g.out), invoked |-> TRUE]
       IN cached(GenerateToolsMethod(generator))

NoCall == [has |-> FALSE, name |-> <<>>, arguments |-> <<>>]

\* how often generate_tools is invoked for the cache at most
MaxGenerations == 2

NoHistory(counted) ==
  [generations |-> 0, caches |-> {}, counted |-> counted, listed |-> {}, totals |-> {}]

\* the history after the cache was looked at, and built if it was not set
Built(h, e) ==
  [h EXCEPT !.generations = IF e.invoked THEN @ + 1 ELSE @,
            !.caches = IF e.cache.set THEN @ \cup {e.cache.tools} ELSE @]

\* an operation that needs the cache may run
MayBuild == tools_cache.set \/ history.generations < MaxGenerations


Idle == Ret("none", <<>>, <<>>, Return(<<>>), NoResult, <<>>, NoSummary)

InitWith(files, counted) ==
  /\ file \in files
  /\ constructed = "no"
  /\ spec = NoPathsDocument
  /\ gen_tools = <<>>
  /\ tools_cache = NoCache
  /\ ret = Idle
  /\ net = NoTransport
  /\ first_gen = NotGenerated
  /\ pending = NoCall
  /\ failures = {}
  /\ history = NoHistory(counted)
  /\ callers = <<>>
  /\ session = [made |-> FALSE]
  /\ validation_sessions = <<>>

\* IgnitionTools.__init__, and IgnitionAPIGenerator.__init__ in it
Construct ==
  /\ constructed = "no"
  /\ LET loaded == LoadSpec(file) IN
     /\ constructed' = IF loaded.raised THEN "raised" ELSE "yes"
     /\ spec' = IF loaded.raised THEN spec ELSE loaded.val
     /\ ret' = Ret("__init__", <<>>, <<>>, loaded, NoResult, <<>>, NoSummary)
  /\ gen_tools' = <<>>
  /\ tools_cache' = NoCache
  /\ net' = NoTransport
  /\ UNCHANGED <<file, validation_sessions, first_gen, pending, failures, history, callers, session>>

\* self.generator.generate_tools(), called on the generator directly
GenerateToolsCall ==
  /\ constructed = "yes"
  /\ ~pending.has
  /\ LET returned(g) ==
           /\ ret' = Ret("generate_tools", <<>>, <<>>, g.out, NoResult, g.out.val, NoSummary)
           /\ spec' = g.self.spec
           /\ gen_tools' = g.self.tools
           /\ first_gen' = Remember(first_gen, g.out)
     IN returned(GenerateToolsMethod([spec |-> spec, tools |-> gen_tools]))
  /\ net' = NoTransport
  /\ UNCHANGED <<file, validation_sessions, constructed, tools_cache, pending, failures, history, callers, session>>

\* get_tools
GetTools ==
  /\ constructed = "yes"
  /\ ~pending.has
  /\ MayBuild
  /\ LET listed(e) ==
           /\ tools_cache' = e.cache
           /\ spec' = e.generator.spec
           /\ gen_tools' = e.generator.tools
           /\ first_gen' = e.first
           /\ ret' = IF e.raised
                     THEN Ret("get_tools", <<>>, <<>>, Raise(e.exc, <<>>), NoResult, <<>>, NoSummary)
                     ELSE Ret("get_tools", <<>>, <<>>, Return(<<>>), NoResult, ListTools(e.cache.tools),
                              NoSummary)
           /\ history' = [Built(history, e) EXCEPT
                            !.listed = IF e.raised \/ ~history.counted THEN @
                                       ELSE @ \cup {Len(ListTools(e.cache.tools))}]
     IN listed(EnsureCache(tools_cache, [spec |-> spec, tools |-> gen_tools], first_gen))
  /\ net' = NoTransport
  /\ UNCHANGED <<file, validation_sessions, constructed, pending, failures, callers, session>>

\* get_available_tools_summary
GetAvailableToolsSummary ==
  /\ constructed = "yes"
  /\ ~pending.has
  /\ MayBuild
  /\ LET summarized(e) ==
           /\ tools_cache' = e.cache
           /\ spec' = e.generator.spec
           /\ gen_tools' = e.generator.tools
           /\ first_gen' = e.first
           /\ ret' = IF e.raised
                     THEN Ret("summary", <<>>, <<>>, Raise(e.exc, <<>>), NoResult, <<>>, NoSummary)
                     ELSE Ret("summary", <<>>, <<>>, Return(<<>>), NoResult, <<>>,
                              ToolsSummary(e.cache.tools))
           /\ history' = [Built(history, e) EXCEPT
                            !.totals = IF e.raised \/ ~history.counted THEN @
                                       ELSE @ \cup {ToolsSummary(e.cache.tools).total_tools}]
     IN summarized(EnsureCache(tools_cache, [spec |-> spec, tools |-> gen_tools], first_gen))
  /\ net' = NoTransport
  /\ UNCHANGED <<file, validation_sessions, constructed, pending, failures, callers, session>>

\* Dispatch without the "if not tool_def" return: the call goes on with the
\* tool the search loop stopped at
DispatchWithoutNotFound(name, arguments, outcome, cache) ==
  IF cache = <<>>
  THEN Handled(Return(ErrorResult(<<"T","o","o","l"," ","'">> \o name \o <<"'"," ","n","o","t"," ","f","o","u","n","d">>)), NoTransport)
  ELSE ToolApiCall(name, cache[IF FindTool(cache, name) = 0 THEN Len(cache) ELSE FindTool(cache, name)],
                   arguments, outcome)

\* call_tool: the part after the custom tools, on a cache that is built
Dispatch(name, arguments, outcome, cache) ==
  IF FindTool(cache, name) = 0
  THEN Handled(Return(ErrorResult(<<"T","o","o","l"," ","'">> \o name \o <<"'"," ","n","o","t"," ","f","o","u","n","d">>)), NoTransport)
  ELSE ToolApiCall(name, cache[FindTool(cache, name)], arguments, outcome)

\* the transport failed in a call of a generated tool: the request was made
\* and _request raised
TransportFailed(transport) ==
  /\ transport.outcomes # <<>>
  /\ RequestResult(transport.outcomes[1]).raised

\* a tool call arrives: call_tool(name, arguments) is about to run
ReceiveCall(name, arguments) ==
  /\ constructed = "yes"
  /\ ~pending.has
  /\ IsCustomTool(name) \/ MayBuild
  /\ pending' = [has |-> TRUE, name |-> name, arguments |-> arguments]
  /\ ret' = Idle
  /\ net' = NoTransport
  /\ UNCHANGED <<file, validation_sessions, constructed, spec, gen_tools, tools_cache, first_gen, failures,
                  history, callers, session>>

\* call_tool, with what the gateway does if a request reaches it
CallTool(outcome) ==
  /\ pending.has
  /\ pending' = NoCall
  /\ LET name == pending.name
         arguments == pending.arguments
         custom(h) ==
           /\ ret' = Ret("call_tool", name, arguments, h.out, h.out.val, <<>>, NoSummary)
           /\ net' = h.net
           /\ UNCHANGED <<tools_cache, spec, gen_tools, first_gen, failures, history>>
         generated(e, h) ==
           /\ tools_cache' = e.cache
           /\ spec' = e.generator.spec
           /\ gen_tools' = e.generator.tools
           /\ first_gen' = e.first
           /\ history' = Built(history, e)
           /\ ret' = IF e.raised
                     THEN Ret("call_tool", name, arguments, Raise(e.exc, <<>>), NoResult, <<>>, NoSummary)
                     ELSE Ret("call_tool", name, arguments, h.out, h.out.val, <<>>, NoSummary)
           /\ net' = IF e.raised THEN NoTransport ELSE h.net
           /\ failures' = IF ~e.raised /\ TransportFailed(h.net)
                              /\ \A f \in failures : f.name # name
                          THEN failures \cup {[name |-> name,
                                               exc |-> RequestResult(h.net.outcomes[1]).exc,
                                               result |-> h.out.val]}
                          ELSE failures
         cached(e) == generated(e, Dispatch(name, arguments, outcome, e.cache.tools))
     IN
     IF IsCustomTool(name)
     THEN custom(IF name \in CustomToolHandlers
                 THEN ToolCreateOrUpdateTag(arguments, outcome)
                 ELSE Handled(Return(ErrorResult(<<"N","o"," ","h","a","n","d","l","e","r"," ","r","e","g","i","s","t","e","r","e","d"," ","f","o","r"," ","t","o","o","l"," ","'">> \o name \o <<"'">>)),
                              NoTransport))
     ELSE cached(EnsureCache(tools_cache, [spec |-> spec, tools |-> gen_tools], first_gen))
  /\ UNCHANGED <<file, validation_sessions, constructed, callers, session>>

(***************************************************************************)
(* The inputs of the operations.                                           *)
(***************************************************************************)

\* how many arguments a call to a generated tool has at most
MaxArgs == 2

ToolNames == {<<"c","r","e","a","t","e","_","o","r","_","u","p","d","a","t","e","_","t","a","g">>, <<"g","e","t","_","t","a","g","s","_","n","a","m","e">>, <<"u","p","d","a","t","e","_","t","a","g">>, <<"n","o","_","s","u","c","h","_","t","o","o","l">>}

ArgPairs ==
  {E(<<"n","a","m","e">>, VStr(<<"T","1">>)), E(<<"l","i","m","i","t">>, VInt(5)), E(<<"b","o","d","y","_","v","a","l","u","e">>, VInt(42)), E(<<"b","o","d","y","_","n","a","m","e">>, VStr(<<"x">>))}

ArgSeqs == DistinctSeqs(ArgPairs, MaxArgs)

TagArgs ==
  { <<E(<<"t","a","g","P","a","t","h">>, VStr(<<"T","a","n","k","s","/","L","e","v","e","l","1">>)), E(<<"v","a","l","u","e">>, VInt(42))>>,
    <<E(<<"t","a","g","P","a","t","h">>, VStr(<<"T","a","n","k","s","/","L","e","v","e","l","1">>)), E(<<"v","a","l","u","e">>, VInt(42)), E(<<"h","t","t","p","M","e","t","h","o","d">>, VStr(<<"p","o","s","t">>)),
      E(<<"r","e","s","o","u","r","c","e","P","a","t","h">>, VStr(<<"/","t","a","g","s">>))>>,
    <<E(<<"t","a","g","P","a","t","h">>, VStr(<<"T","a","n","k","s","/","L","e","v","e","l","1">>)), E(<<"v","a","l","u","e">>, VNull), E(<<"h","t","t","p","M","e","t","h","o","d">>, VStr(<<"p","u","t">>)),
      E(<<"r","e","s","o","u","r","c","e","P","a","t","h">>, VStr(<<"/">>)), E(<<"h","e","a","d","e","r","s">>, VDict(<<E(<<"X","-","T","r","a","c","e">>, <<"1">>)>>))>>,
    <<E(<<"p","a","y","l","o","a","d","O","v","e","r","r","i","d","e">>, VInt(5))>>,
    <<E(<<"p","a","y","l","o","a","d","O","v","e","r","r","i","d","e">>, VDict(<<E(<<"a">>, <<"b">>)>>)), E(<<"h","t","t","p","M","e","t","h","o","d">>, VStr(<<"p","o","s","t">>)),
      E(<<"r","e","s","o","u","r","c","e","P","a","t","h">>, VStr(<<"t","a","g","s">>)), E(<<"h","e","a","d","e","r","s">>, VDict(<<E(<<"A","u","t","h","o","r","i","z","a","t","i","o","n">>, <<"B","a","s","i","c"," ","e","A","=","=">>)>>)),
      E(<<"q","u","e","r","y","P","a","r","a","m","s">>, VDict(<<E(<<"p","r","o","v","i","d","e","r">>, <<"d","e","f","a","u","l","t">>)>>))>>,
    <<E(<<"t","a","g","P","a","t","h">>, VStr(<<"T","a","n","k","s","/","L","e","v","e","l","1">>)), E(<<"h","t","t","p","M","e","t","h","o","d">>, VStr(<<"p","o","s","t">>)), E(<<"r","e","s","o","u","r","c","e","P","a","t","h">>, VStr(<<"t","a","g","s">>))>>,
    <<E(<<"t","a","g","P","a","t","h">>, VStr(<<"T","a","n","k","s","/","L","e","v","e","l","1">>)), E(<<"v","a","l","u","e">>, VNull), E(<<"h","t","t","p","M","e","t","h","o","d">>, VStr(<<"p","o","s","t">>)),
      E(<<"r","e","s","o","u","r","c","e","P","a","t","h">>, VStr(<<"t","a","g","s">>)), E(<<"q","u","a","l","i","t","y">>, VStr(<<"G","o","o","d">>))>>,
    <<E(<<"p","a","y","l","o","a","d","O","v","e","r","r","i","d","e">>, VList(<<VInt(1)>>)), E(<<"h","t","t","p","M","e","t","h","o","d">>, VStr(<<"p","u","t">>)), E(<<"r","e","s","o","u","r","c","e","P","a","t","h">>, VStr(<<"t","a","g","s">>))>>,
    <<E(<<"t","a","g","P","a","t","h">>, VStr(<<>>)), E(<<"v","a","l","u","e">>, VInt(42)), E(<<"h","t","t","p","M","e","t","h","o","d">>, VStr(<<"p","o","s","t">>)),
      E(<<"r","e","s","o","u","r","c","e","P","a","t","h">>, VStr(<<"t","a","g","s">>))>>,
    <<E(<<"t","a","g","P","a","t","h">>, VStr(<<"T","a","n","k","s","/","L","e","v","e","l","1">>)), E(<<"v","a","l","u","e">>, VInt(42)), E(<<"a","t","t","r","i","b","u","t","e","s">>, VStr(<<"x">>)),
      E(<<"h","t","t","p","M","e","t","h","o","d">>, VStr(<<"p","o","s","t">>)), E(<<"r","e","s","o","u","r","c","e","P","a","t","h">>, VStr(<<"t","a","g","s">>))>>,
    <<E(<<"t","a","g","P","a","t","h">>, VStr(<<"T","a","n","k","s","/","L","e","v","e","l","1">>)), E(<<"v","a","l","u","e">>, VInt(42)), E(<<"h","e","a","d","e","r","s">>, VInt(5)),
      E(<<"h","t","t","p","M","e","t","h","o","d">>, VStr(<<"p","o","s","t">>)), E(<<"r","e","s","o","u","r","c","e","P","a","t","h">>, VStr(<<"t","a","g","s">>))>>,
    <<E(<<"t","a","g","P","a","t","h">>, VStr(<<"T","a","n","k","s","/","L","e","v","e","l","1">>)), E(<<"v","a","l","u","e">>, VInt(42)), E(<<"q","u","e","r","y","P","a","r","a","m","s">>, VList(<<VInt(1)>>)),
      E(<<"h","t","t","p","M","e","t","h","o","d">>, VStr(<<"p","o","s","t">>)), E(<<"r","e","s","o","u","r","c","e","P","a","t","h">>, VStr(<<"t","a","g","s">>))>>,
    <<E(<<"t","a","g","P","a","t","h">>, VStr(<<"T","a","n","k","s","/","L","e","v","e","l","1">>)), E(<<"v","a","l","u","e">>, VInt(42)), E(<<"h","t","t","p","M","e","t","h","o","d">>, VInt(5)),
      E(<<"r","e","s","o","u","r","c","e","P","a","t","h">>, VStr(<<"t","a","g","s">>))>>,
    <<E(<<"t","a","g","P","a","t","h">>, VStr(<<"T","a","n","k","s","/","L","e","v","e","l","1">>)), E(<<"v","a","l","u","e">>, VInt(42)), E(<<"h","t","t","p","M","e","t","h","o","d">>, VStr(<<"p","o","s","t">>)),
      E(<<"r","e","s","o","u","r","c","e","P","a","t","h">>, VStr(<<"t","a","g","s">>)), E(<<"h","e","a","d","e","r","s">>, VDict(<<E(<<"X","-","I","g","n","i","t","i","o","n","-","A","P","I","-","T","o","k","e","n">>, <<"f","o","r","g","e","d">>)>>))>> }

\* the files the dispatcher is run on
DispatchFiles ==
  { [state |-> "json", doc |-> Document(<<TagsEntry, WriteEntry>>)],
    [state |-> "json", doc |-> NoPathsDocument],
    [state |-> "json", doc |-> Document(<<ProjectsEntry, LogsEntry>>)],
    [state |-> "absent", doc |-> NoPathsDocument] }

\* the tool calls that arrive
GeneratedCalls(arguments) ==
  \E name \in ToolNames \ {<<"c","r","e","a","t","e","_","o","r","_","u","p","d","a","t","e","_","t","a","g">>}, args \in arguments : ReceiveCall(name, args)

CustomCalls(arguments) ==
  \E args \in arguments : ReceiveCall(<<"c","r","e","a","t","e","_","o","r","_","u","p","d","a","t","e","_","t","a","g">>, args)

Execute == \E outcome \in Outcomes : CallTool(outcome)

(***************************************************************************)
(* Spec: the dispatcher on a few documents, with every argument mapping up *)
(* to MaxArgs.  SpecGen: the generator and the listing on every document   *)
(* up to MaxPaths, with calls that carry no arguments.                     *)
(***************************************************************************)

Init == InitWith(DispatchFiles, FALSE)

Next ==
  \/ Construct
  \/ GenerateToolsCall
  \/ GetTools
  \/ GetAvailableToolsSummary
  \/ GeneratedCalls(ArgSeqs)
  \/ CustomCalls(TagArgs \cup {<<>>})
  \/ Execute

Spec == Init /\ [][Next]_vars

InitGen == InitWith(Files, TRUE)

NextGen ==
  \/ Construct
  \/ GenerateToolsCall
  \/ GetTools
  \/ GetAvailableToolsSummary
  \/ GeneratedCalls({<<>>})
  \/ CustomCalls({<<>>})
  \/ Execute

SpecGen == InitGen /\ [][NextGen]_vars


(***************************************************************************)
(* SpecEdge: the dispatcher on documents whose operations share a name,    *)
(* carry an operationId with a path separator, declare a parameter named   *)
(* like a body key, or have two placeholders in the path.                  *)
(***************************************************************************)

\* the path entries of those documents
EdgeEntries ==
  << E(<<"/","d","a","t","a","/","a","p","i","/","v","1","/","t","a","g","s","/","{","a","}","/","{","b","}">>,
       PathItem(<<E(<<"g","e","t">>, Operation(FALSE, Absent, Absent, <<Param(<<"a">>, TRUE), Param(<<"b">>, TRUE)>>, NoBody))>>)),
     E(<<"/","d","a","t","a","/","a","p","i","/","v","1","/","t","a","g","s","/","b">>,
       PathItem(<<E(<<"g","e","t">>, Operation(FALSE, Some(<<"d","u","p">>), Some(<<"s","e","c","o","n","d">>), <<>>, NoBody))>>)),
     E(<<"/","d","a","t","a","/","a","p","i","/","v","1","/","t","a","g","s","/","a">>,
       PathItem(<<E(<<"g","e","t">>, Operation(FALSE, Some(<<"d","u","p">>), Some(<<"f","i","r","s","t">>), <<>>, NoBody))>>)),
     E(<<"/","d","a","t","a","/","a","p","i","/","v","1","/","d","e","v","i","c","e","s","/","c","o","n","f","i","g">>,
       PathItem(<<E(<<"g","e","t">>, Operation(FALSE, Some(<<"t","a","g","s","/","r","e","a","d">>), Absent, <<Param(<<"b","o","d","y","_","m","o","d","e">>, TRUE)>>, NoBody)),
                  E(<<"p","u","t">>, Operation(FALSE, Absent, Absent, <<Param(<<"b","o","d","y","_","m","o","d","e">>, TRUE)>>,
                                      JsonBody(<<<<"m","o","d","e">>>>)))>>)) >>

EdgeFiles ==
  { [state |-> "json", doc |-> Document(EdgeEntries)],
    [state |-> "json", doc |-> Document(<<EdgeEntries[3], EdgeEntries[4], EdgeEntries[2], EdgeEntries[1]>>)] }

EdgeNames == {<<"g","e","t","_","t","a","g","s","_","a","_","b">>, <<"d","u","p">>, <<"t","a","g","s","/","r","e","a","d">>, <<"p","u","t","_","d","e","v","i","c","e","s","_","c","o","n","f","i","g">>}

EdgeArgs ==
  { <<>>,
    <<E(<<"a">>, VStr(<<"{","b","}">>)), E(<<"b">>, VStr(<<"x">>))>>,
    <<E(<<"b">>, VStr(<<"x">>)), E(<<"a">>, VStr(<<"{","b","}">>))>>,
    <<E(<<"a">>, VStr(<<"T","1">>)), E(<<"b">>, VStr(<<"T","2">>))>>,
    <<E(<<"b","o","d","y","_","m","o","d","e">>, VStr(<<"f","a","s","t">>))>> }

InitEdge == InitWith(EdgeFiles, FALSE)

NextEdge ==
  \/ Construct
  \/ GetTools
  \/ \E name \in EdgeNames, args \in EdgeArgs : ReceiveCall(name, args)
  \/ \E outcome \in {o \in Outcomes : o.failed \/ (o.status = 200 /\ o.decodes)} : CallTool(outcome)

SpecEdge == InitEdge /\ [][NextEdge]_vars

(***************************************************************************)
(* Concurrent calls on one dispatcher.  A call that is no custom tool's    *)
(* goes through call_tool's steps one at a time, other calls running in    *)
(* between: it tests self.tools_cache, invokes generate_tools if the cache *)
(* was None, assigns the result to self.tools_cache, and then looks its    *)
(* tool up in self.tools_cache.  callers[c] holds the position of call c,  *)
(* the values it has still to assign, and every value of the cache it has  *)
(* read.                                                                   *)
(***************************************************************************)

\* how many calls run concurrently
NumCallers == 2

\* _generate_tools_cache appending each tool to self.tools_cache as it is
\* generated
CacheWritesAppending(tools) == [i \in 1..(Len(tools) + 1) |-> SubSeq(tools, 1, i - 1)]

\* _generate_tools_cache: the values it assigns to self.tools_cache, in
\* order, for the list generate_tools returned
CacheWrites(tools) == <<tools>>

\* if self.tools_cache is None
CheckCache(c) ==
  /\ callers[c].pc = "idle"
  /\ callers' = [callers EXCEPT ![c].pc = IF tools_cache.set THEN "lookup" ELSE "generate",
                                ![c].seen = @ \cup {tools_cache}]
  /\ UNCHANGED <<file, validation_sessions, constructed, spec, gen_tools, tools_cache, pending, ret, net, first_gen,
                 failures, history, session>>

\* self.generator.generate_tools(), which returns a list or raises
Generate(c) ==
  /\ callers[c].pc = "generate"
  /\ LET returned(g) ==
           callers' = [callers EXCEPT ![c].pc = IF g.out.raised THEN "raised" ELSE "assign",
                                      ![c].writes = IF g.out.raised THEN <<>> ELSE CacheWrites(g.out.val)]
     IN returned(GenerateToolsMethod([spec |-> spec, tools |-> gen_tools]))
  /\ UNCHANGED <<file, validation_sessions, constructed, spec, gen_tools, tools_cache, pending, ret, net, first_gen,
                 failures, history, session>>

\* self.tools_cache = ...
AssignCache(c) ==
  /\ callers[c].pc = "assign"
  /\ tools_cache' = [set |-> TRUE, tools |-> Head(callers[c].writes)]
  /\ callers' = [callers EXCEPT ![c].writes = Tail(@),
                                ![c].pc = IF Len(callers[c].writes) = 1 THEN "lookup" ELSE "assign"]
  /\ UNCHANGED <<file, validation_sessions, constructed, spec, gen_tools, pending, ret, net, first_gen, failures,
                 history, session>>

\* for tool in self.tools_cache
LookUp(c) ==
  /\ callers[c].pc = "lookup"
  /\ callers' = [callers EXCEPT ![c].pc = "done", ![c].seen = @ \cup {tools_cache}]
  /\ UNCHANGED <<file, validation_sessions, constructed, spec, gen_tools, tools_cache, pending, ret, net, first_gen,
                 failures, history, session>>

\* the call returns or raises, and another may arrive in its place
ReturnCall(c) ==
  /\ callers[c].pc \in {"done", "raised"}
  /\ callers' = [callers EXCEPT ![c].pc = "idle"]
  /\ UNCHANGED <<file, validation_sessions, constructed, spec, gen_tools, tools_cache, pending, ret, net, first_gen,
                 failures, history, session>>

\* the dispatcher is constructed on a document that loads, and no call has
\* arrived
InitRace ==
  /\ file \in {f \in DispatchFiles : f.state = "json"}
  /\ constructed = "yes"
  /\ spec = file.doc
  /\ gen_tools = <<>>
  /\ tools_cache = NoCache
  /\ ret = Idle
  /\ net = NoTransport
  /\ first_gen = NotGenerated
  /\ pending = NoCall
  /\ failures = {}
  /\ history = NoHistory(FALSE)
  /\ callers = [c \in 1..NumCallers |-> [pc |-> "idle", writes |-> <<>>, seen |-> {}]]
  /\ session = [made |-> FALSE]
  /\ validation_sessions = <<>>

NextRace ==
  \E c \in 1..NumCallers :
    \/ CheckCache(c)
    \/ Generate(c)
    \/ AssignCache(c)
    \/ LookUp(c)
    \/ ReturnCall(c)

SpecRace == InitRace /\ [][NextRace]_vars

(***************************************************************************)
(* One IgnitionClient used for several operations.  session holds the      *)
(* credentials the client has now, every request it sent together with the *)
(* credentials it held when it sent it, and its last operation: which one, *)
(* what the gateway did, and what the operation returned or raised.        *)
(***************************************************************************)

\* how many requests one session sends at most
MaxRequests == 2

\* the values username, password and api_key are rotated to
Credentials ==
  { [username |-> <<"a","d","m","i","n">>, password |-> <<"p","a","s","s","w","o","r","d">>, api_key |-> <<>>],
    [username |-> <<"o","p","s">>, password |-> <<"r","o","t","a","t","e","d">>, api_key |-> <<>>],
    [username |-> <<"a","d","m","i","n">>, password |-> <<"p","a","s","s","w","o","r","d">>, api_key |-> <<"t","o","k","-","1">>],
    [username |-> <<"o","p","s">>, password |-> <<"r","o","t","a","t","e","d">>, api_key |-> <<"t","o","k","-","2">>] }

\* what the gateway does with a request of the session
GatewayOutcomes ==
  Outcomes \cup
    { Response(204, <<>>, FALSE, <<>>, <<>>),
      Response(302, <<"t","e","x","t","/","h","t","m","l">>, FALSE, <<>>, <<"<","h","t","m","l",">","m","o","v","e","d","<","/","h","t","m","l",">">>),
      Response(403, <<"t","e","x","t","/","h","t","m","l">>, FALSE, <<>>, <<"<","h","t","m","l",">","F","o","r","b","i","d","d","e","n","<","/","h","t","m","l",">">>),
      Response(404, <<"a","p","p","l","i","c","a","t","i","o","n","/","j","s","o","n">>, TRUE, <<E(<<"e","r","r","o","r">>, <<"n","o","t"," ","f","o","u","n","d">>)>>, <<"{","\"","e","r","r","o","r","\"",":"," ","\"","n","o","t"," ","f","o","u","n","d","\"","}">>) }

\* IgnitionClient(), before any request
NewSession ==
  [made |-> TRUE, client |-> NewClient, sent |-> <<>>, op |-> "none", outcome |-> NetworkError(<<>>),
   out |-> Return(<<>>)]

\* the session after an operation: the request it sent, if it sent one, and
\* what the operation returned or raised
Operated(s, op, request, outcome, out) ==
  [s EXCEPT !.sent = IF request.raised THEN @ ELSE Append(@, [held |-> s.client, request |-> request.val]),
            !.op = op, !.outcome = outcome, !.out = out]

\* get_openapi_spec's fallback document
MinimalSpec ==
  << E(<<"o","p","e","n","a","p","i">>, VStr(<<"3",".","0",".","0">>)),
     E(<<"i","n","f","o">>, VDict(<<E(<<"t","i","t","l","e">>, <<"I","g","n","i","t","i","o","n"," ","G","a","t","e","w","a","y"," ","A","P","I">>), E(<<"v","e","r","s","i","o","n">>, <<"1",".","0",".","0">>)>>)),
     E(<<"p","a","t","h","s">>, VDict(<<>>)) >>

\* get_openapi_spec with "except httpx.HTTPStatusError"
OpenapiSpecResultStatusOnly(response) ==
  IF response.raised /\ response.exc = "HTTPStatusError" THEN Return(MinimalSpec) ELSE response

\* get_openapi_spec: try ... except Exception, around the request
OpenapiSpecResult(response) == IF response.raised THEN Return(MinimalSpec) ELSE response

\* client.username = ..., client.password = ..., client.api_key = ...
SetCredentials(c) ==
  /\ session.made
  /\ [username |-> session.client.username, password |-> session.client.password,
      api_key |-> session.client.api_key] # c
  /\ session' = [session EXCEPT !.client.username = c.username, !.client.password = c.password,
                                !.client.api_key = c.api_key]
  /\ UNCHANGED <<file, validation_sessions, constructed, spec, gen_tools, tools_cache, pending, ret, net, first_gen,
                 failures, history, callers>>

\* get_gateway_status
GetGatewayStatus(outcome) ==
  /\ session.made /\ Len(session.sent) < MaxRequests
  /\ session' = Operated(session, "get_gateway_status",
                         Return(SentRequest(session.client, <<"G","E","T">>,
                                            <<"/","s","y","s","t","e","m","/","g","a","t","e","w","a","y","-","n","e","t","w","o","r","k","/","r","e","m","o","t","e","-","s","e","r","v","e","r","s","/","s","t","a","t","u","s">>,
                                            <<>>, NoKwarg, NoKwarg)),
                         outcome, RequestResult(outcome))
  /\ UNCHANGED <<file, validation_sessions, constructed, spec, gen_tools, tools_cache, pending, ret, net, first_gen,
                 failures, history, callers>>

\* get_openapi_spec
GetOpenapiSpec(outcome) ==
  /\ session.made /\ Len(session.sent) < MaxRequests
  /\ session' = Operated(session, "get_openapi_spec",
                         Return(SentRequest(session.client, <<"G","E","T">>, <<"/","o","p","e","n","a","p","i",".","j","s","o","n">>, <<>>, NoKwarg, NoKwarg)),
                         outcome, OpenapiSpecResult(RequestResult(outcome)))
  /\ UNCHANGED <<file, validation_sessions, constructed, spec, gen_tools, tools_cache, pending, ret, net, first_gen,
                 failures, history, callers>>

\* the arguments create_or_update_tag is called with on the session
SessionTagArgs ==
  { <<E(<<"t","a","g","P","a","t","h">>, VStr(<<"T","a","n","k","s","/","L","e","v","e","l","1">>)), E(<<"v","a","l","u","e">>, VInt(42))>>,
    <<E(<<"t","a","g","P","a","t","h">>, VStr(<<"T","a","n","k","s","/","L","e","v","e","l","1">>)), E(<<"v","a","l","u","e">>, VInt(42)), E(<<"h","t","t","p","M","e","t","h","o","d">>, VStr(<<"p","o","s","t">>)),
      E(<<"r","e","s","o","u","r","c","e","P","a","t","h">>, VStr(<<"/","t","a","g","s">>))>> }

\* create_or_update_tag, through call_webdev: no request is sent if building
\* it raises
CreateOrUpdateTag(arguments, outcome) ==
  /\ session.made /\ Len(session.sent) < MaxRequests
  /\ LET operated(request) ==
           Operated(session, "create_or_update_tag", request, outcome,
                    IF request.raised THEN request ELSE RequestResult(outcome))
     IN session' = operated(WebdevRequest(session.client, arguments))
  /\ UNCHANGED <<file, validation_sessions, constructed, spec, gen_tools, tools_cache, pending, ret, net, first_gen,
                 failures, history, callers>>

\* a client constructed from the settings; no dispatcher is involved
InitClient ==
  /\ file \in {f \in DispatchFiles : f.state = "absent"}
  /\ constructed = "no"
  /\ spec = NoPathsDocument
  /\ gen_tools = <<>>
  /\ tools_cache = NoCache
  /\ ret = Idle
  /\ net = NoTransport
  /\ first_gen = NotGenerated
  /\ pending = NoCall
  /\ failures = {}
  /\ history = NoHistory(FALSE)
  /\ callers = <<>>
  /\ session = NewSession
  /\ validation_sessions = <<>>

NextClient ==
  \/ \E c \in Credentials : SetCredentials(c)
  \/ \E outcome \in GatewayOutcomes : GetGatewayStatus(outcome)
  \/ \E outcome \in GatewayOutcomes : GetOpenapiSpec(outcome)
  \/ \E arguments \in SessionTagArgs, outcome \in GatewayOutcomes : CreateOrUpdateTag(arguments, outcome)

SpecClient == InitClient /\ [][NextClient]_vars

(***************************************************************************)
(* server.py: IgnitionMCPServer.  The stdio server keeps one               *)
(* IgnitionClient, self.ignition_client, for all its calls, and makes its  *)
(* IgnitionTools on first use.  In SpecServer session is that client: the  *)
(* state of its HTTP client (unopened, or closed after a with block), how  *)
(* many calls the server has handled, and how often a with block was       *)
(* refused because the client had been closed.                             *)
(***************************************************************************)

\* how many calls the server handles at most
MaxServerCalls == 3

\* if not self.ignition_client: self.ignition_client = IgnitionClient()
ServerClient(s) == IF s.made THEN s ELSE [made |-> TRUE, state |-> "unopened", calls |-> 0, refused |-> 0]

\* the handler's outer "except Exception"
ServerError(name) == ErrorResult(<<"E","r","r","o","r"," ","e","x","e","c","u","t","i","n","g"," ">> \o name \o <<"."," ","P","l","e","a","s","e"," ","c","o","n","t","a","c","t"," ","s","u","p","p","o","r","t",".">>)

\* call_tool: get_gateway_status and test_connection.  The with block
\* enters the shared client; an HTTP client that was closed cannot be
\* entered again (RuntimeError), and the outer except returns the error.
ServerBaseTool(name, client, outcome) ==
  IF client.state # "unopened"
  THEN [client |-> [client EXCEPT !.refused = @ + 1],
        h |-> Handled(Return(ServerError(name)), NoTransport)]
  ELSE [client |-> [client EXCEPT !.state = "closed"],
        h |-> IF name = <<"g","e","t","_","g","a","t","e","w","a","y","_","s","t","a","t","u","s">>
              THEN Handled(Return(IF RequestResult(outcome).raised THEN ServerError(name)
                                  ELSE CallToolResult(FALSE, JsonDumps(RequestResult(outcome).val))),
                           OneSession(<<SentRequest(NewClient, <<"G","E","T">>,
                                                    <<"/","s","y","s","t","e","m","/","g","a","t","e","w","a","y","-","n","e","t","w","o","r","k","/","r","e","m","o","t","e","-","s","e","r","v","e","r","s","/","s","t","a","t","u","s">>,
                                                    <<>>, NoKwarg, NoKwarg)>>, <<outcome>>))
              ELSE Handled(Return(CallToolResult(FALSE, JsonDumps(<<E(<<"s","t","a","t","u","s">>, <<"s","u","c","c","e","s","s">>),
                                                                    E(<<"m","e","s","s","a","g","e">>, <<"C","o","n","n","e","c","t","i","o","n"," ","s","u","c","c","e","s","s","f","u","l">>)>>))),
                           OneSession(<<SentRequest(NewClient, <<"G","E","T">>, <<"/","o","p","e","n","a","p","i",".","j","s","o","n">>, <<>>, NoKwarg, NoKwarg)>>,
                                      <<outcome>>))]

\* call_tool: list_available_tools and the generated or custom tools.
\* _get_ignition_tools makes the IgnitionTools if there is none; e is what
\* became of the cache, loaded whether there is an IgnitionTools afterwards.
\* The text of the summary is left out of the result.
ServerDispatch(name, arguments, outcome) ==
  LET unavailable ==
        Handled(Return(ErrorResult(<<"T","o","o","l"," ","n","o","t"," ","a","v","a","i","l","a","b","l","e",":"," ">> \o name \o <<"."," ","P","l","e","a","s","e"," ","c","o","n","t","a","c","t"," ","s","u","p","p","o","r","t",".">>)),
                NoTransport)
      generator == IF constructed = "yes" THEN [spec |-> spec, tools |-> gen_tools]
                   ELSE [spec |-> LoadSpec(file).val, tools |-> <<>>]
      cache == IF constructed = "yes" THEN tools_cache ELSE NoCache
      kept == [raised |-> FALSE, exc |-> "", cache |-> cache, generator |-> generator,
               first |-> first_gen, invoked |-> FALSE]
      summarized(e) ==
        [loaded |-> TRUE, e |-> e, summary |-> IF e.raised THEN NoSummary ELSE ToolsSummary(e.cache.tools),
         h |-> Handled(Return(NoResult), NoTransport)]
      called(e) ==
        [loaded |-> TRUE, e |-> e, summary |-> NoSummary,
         h |-> IF e.raised THEN unavailable ELSE Dispatch(name, arguments, outcome, e.cache.tools)]
  IN IF constructed # "yes" /\ LoadSpec(file).raised
     THEN [loaded |-> FALSE, e |-> [kept EXCEPT !.generator = [spec |-> spec, tools |-> gen_tools]],
           summary |-> NoSummary,
           h |-> IF name = <<"l","i","s","t","_","a","v","a","i","l","a","b","l","e","_","t","o","o","l","s">> THEN Handled(Return(NoResult), NoTransport)
                 ELSE unavailable]
     ELSE IF name = <<"l","i","s","t","_","a","v","a","i","l","a","b","l","e","_","t","o","o","l","s">> THEN summarized(EnsureCache(cache, generator, first_gen))
     ELSE IF IsCustomTool(name)
          THEN [loaded |-> TRUE, e |-> kept, summary |-> NoSummary,
                h |-> ToolCreateOrUpdateTag(arguments, outcome)]
     ELSE called(EnsureCache(cache, generator, first_gen))

\* the call_tool handler of the server
ServerCallTool(name, arguments, outcome) ==
  /\ ServerClient(session).calls < MaxServerCalls
  /\ ~pending.has
  /\ IF name \in {<<"g","e","t","_","g","a","t","e","w","a","y","_","s","t","a","t","u","s">>, <<"t","e","s","t","_","c","o","n","n","e","c","t","i","o","n">>}
     THEN LET handled(b) ==
                /\ session' = [b.client EXCEPT !.calls = @ + 1]
                /\ ret' = Ret("server.call_tool", name, arguments, b.h.out, b.h.out.val, <<>>, NoSummary)
                /\ net' = [b.h.net EXCEPT !.constructed = IF session.made THEN 0 ELSE 1]
          IN /\ handled(ServerBaseTool(name, ServerClient(session), outcome))
             /\ UNCHANGED <<constructed, spec, gen_tools, tools_cache, first_gen, history>>
     ELSE LET handled(d) ==
                /\ session' = [ServerClient(session) EXCEPT !.calls = @ + 1]
                /\ constructed' = IF d.loaded THEN "yes" ELSE constructed
                /\ spec' = d.e.generator.spec
                /\ gen_tools' = d.e.generator.tools
                /\ tools_cache' = d.e.cache
                /\ first_gen' = d.e.first
                /\ history' = Built(history, d.e)
                /\ ret' = Ret("server.call_tool", name, arguments, d.h.out, d.h.out.val, <<>>, d.summary)
                /\ net' = [d.h.net EXCEPT !.constructed = @ + IF session.made THEN 0 ELSE 1]
          IN handled(ServerDispatch(name, arguments, outcome))
  /\ UNCHANGED <<file, validation_sessions, pending, failures, callers>>

InitServer == InitWith(DispatchFiles, FALSE)

NextServer ==
  \E name \in {<<"g","e","t","_","g","a","t","e","w","a","y","_","s","t","a","t","u","s">>, <<"t","e","s","t","_","c","o","n","n","e","c","t","i","o","n">>, <<"l","i","s","t","_","a","v","a","i","l","a","b","l","e","_","t","o","o","l","s">>,
               <<"c","r","e","a","t","e","_","o","r","_","u","p","d","a","t","e","_","t","a","g">>, <<"g","e","t","_","t","a","g","s","_","n","a","m","e">>},
     arguments \in {<<>>, <<E(<<"p","a","y","l","o","a","d","O","v","e","r","r","i","d","e">>, VDict(<<E(<<"a">>, <<"b">>)>>)), E(<<"h","t","t","p","M","e","t","h","o","d">>, VStr(<<"p","o","s","t">>)),
                            E(<<"r","e","s","o","u","r","c","e","P","a","t","h">>, VStr(<<"t","a","g","s">>))>>},
     outcome \in Outcomes :
    ServerCallTool(name, arguments, outcome)

SpecServer == InitServer /\ [][NextServer]_vars

(***************************************************************************)
(* fastapi_server.py and enhanced_mcp_server.py: the route                 *)
(* POST /tools/{tool_name} of the two REST front ends.  Each request makes *)
(* its own IgnitionTools, calls call_tool on it and turns the result into  *)
(* a ToolResponse.  In SpecRest ret is the last request: the front end in  *)
(* op, the dispatcher's result, and the response.  The text of str(e) in   *)
(* the response to an exception is left out; exception names the class.   *)
(***************************************************************************)

ToolResponse(success, data, error, exception) ==
  [success |-> success, data |-> data, error |-> error, exception |-> exception]

\* tools = IgnitionTools(); result = await tools.call_tool(tool_name, arguments)
RestDispatch(name, arguments, outcome) ==
  LET called(e) ==
        IF e.raised THEN Handled(Raise(e.exc, NoResult), NoTransport)
        ELSE Dispatch(name, arguments, outcome, e.cache.tools)
  IN IF LoadSpec(file).raised THEN Handled(Raise(LoadSpec(file).exc, NoResult), NoTransport)
     ELSE IF IsCustomTool(name) THEN ToolCreateOrUpdateTag(arguments, outcome)
     ELSE called(EnsureCache(NoCache, [spec |-> LoadSpec(file).val, tools |-> <<>>], NotGenerated))

\* fastapi_server.py, call_tool: the response for what the dispatcher did
FastapiResponse(out) ==
  IF out.raised THEN ToolResponse(FALSE, <<>>, <<>>, out.exc)
  ELSE IF out.val.isError THEN ToolResponse(FALSE, out.val.text, <<"T","o","o","l"," ","e","x","e","c","u","t","i","o","n"," ","f","a","i","l","e","d">>, "")
  ELSE ToolResponse(TRUE, out.val.text, <<>>, "")

\* enhanced_mcp_server.py, call_tool: the result's content is never empty,
\* so the first branch is taken for every result
EnhancedResponse(out) ==
  IF out.raised THEN ToolResponse(FALSE, <<>>, <<>>, out.exc)
  ELSE ToolResponse(TRUE, out.val.text, <<>>, "")

\* POST /tools/{tool_name} on a front end
RestCallTool(front, name, arguments, outcome) ==
  /\ ~pending.has
  /\ LET responded(h) ==
           /\ ret' = [response |-> IF front = "fastapi_server" THEN FastapiResponse(h.out)
                                   ELSE EnhancedResponse(h.out)]
                       @@ Ret(front, name, arguments, h.out, h.out.val, <<>>, NoSummary)
           /\ net' = h.net
     IN responded(RestDispatch(name, arguments, outcome))
  /\ UNCHANGED <<file, validation_sessions, constructed, spec, gen_tools, tools_cache, pending, first_gen, failures,
                 history, callers, session>>

NextRest ==
  \E front \in {"fastapi_server", "enhanced_mcp_server"},
     name \in ToolNames,
     arguments \in {<<>>, <<E(<<"n","a","m","e">>, VStr(<<"T","1">>))>>,
                    <<E(<<"p","a","y","l","o","a","d","O","v","e","r","r","i","d","e">>, VDict(<<E(<<"a">>, <<"b">>)>>)), E(<<"h","t","t","p","M","e","t","h","o","d">>, VStr(<<"p","o","s","t">>)),
                      E(<<"r","e","s","o","u","r","c","e","P","a","t","h">>, VStr(<<"t","a","g","s">>))>>},
     outcome \in Outcomes :
    RestCallTool(front, name, arguments, outcome)

SpecRest == Init /\ [][NextRest]_vars

(***************************************************************************)
(* enhanced_mcp_server.py: the validation-session store.  The handlers are *)
(* coroutines of one event loop; validate_script_with_rules_engine calls   *)
(* requests.post, which blocks without suspending, so each handler runs to *)
(* its end before the next one starts.  The requests carry no context and  *)
(* no metadata.                                                            *)
(***************************************************************************)
MaxSessions == 2

\* the values uuid.uuid4() can return
SessionIds == 1..MaxSessions

\* the values datetime.utcnow() can return
Times == {1, 2}

Scripts == {<<"x"," ","="," ","1">>, <<"i","m","p","o","r","t"," ","o","s">>}

\* what requests.post to the rules engine can do
EngineOutcomes == {"ok", "down"}

\* validate_script_with_rules_engine
ValidateScriptWithRulesEngine(script, context, engine) ==
  IF engine = "ok"
  THEN [error |-> <<>>, of |-> script]
  ELSE IF engine = "rejected"
  THEN [error |-> <<"R","u","l","e","s"," ","e","n","g","i","n","e"," ","e","r","r","o","r">>, of |-> <<>>]
  ELSE [error |-> <<"F","a","i","l","e","d"," ","t","o"," ","c","o","n","n","e","c","t"," ","t","o"," ","r","u","l","e","s"," ","e","n","g","i","n","e">>, of |-> <<>>]

HttpResponse(op, id, status, body) == [op |-> op, id |-> id, status |-> status, body |-> body]

NotFound(op, id) == HttpResponse(op, id, 404, <<"V","a","l","i","d","a","t","i","o","n"," ","s","e","s","s","i","o","n"," ","n","o","t"," ","f","o","u","n","d">>)

DelSessionThroughId(sessions, id) == SelectSeq(sessions, LAMBDA e : e.k > id)

\* del validation_sessions[session_id]
DelSession(sessions, id) == SelectSeq(sessions, LAMBDA e : e.k # id)

\* GET /validation/scripts
ListValidationSessions ==
  /\ ret' = HttpResponse("list", 0, 200,
              [sessions |-> [i \in DOMAIN validation_sessions |->
                               [session_id |-> validation_sessions[i].k,
                                metadata |-> validation_sessions[i].v.metadata,
                                has_validation |-> TRUE,
                                created_at |-> validation_sessions[i].v.created_at,
                                updated_at |-> validation_sessions[i].v.updated_at]],
               total |-> Len(validation_sessions)])
  /\ UNCHANGED <<file, validation_sessions, constructed, spec, gen_tools, tools_cache, pending, net,
                 first_gen, failures, history, callers, session>>

\* POST /validation/scripts
ValidateJythonScript(id, script, context, engine, now) ==
  /\ ~HasKey(validation_sessions, id)
  /\ LET result == ValidateScriptWithRulesEngine(script, context, engine) IN
       /\ validation_sessions' =
            Put(validation_sessions, id,
                [session_id |-> id, script |-> script, context |-> context, metadata |-> <<>>,
                 validation_result |-> result, created_at |-> now, updated_at |-> now])
       /\ ret' = HttpResponse("create", id, 200, result)
  /\ UNCHANGED <<file, constructed, spec, gen_tools, tools_cache, pending, net, first_gen,
                 failures, history, callers, session>>

\* GET /validation/scripts/{session_id}
GetValidationSession(id) ==
  /\ ret' = IF ~HasKey(validation_sessions, id)
            THEN NotFound("get", id)
            ELSE HttpResponse("get", id, 200, Lookup(validation_sessions, id))
  /\ UNCHANGED <<file, validation_sessions, constructed, spec, gen_tools, tools_cache, pending, net,
                 first_gen, failures, history, callers, session>>

\* the session after the assignments of update_validation_session
PatchedSession(s, script_updates, context, engine, now) ==
  LET script == IF script_updates.has THEN script_updates.s ELSE s.script
      ctx == IF context.has THEN context ELSE s.context
  IN [s EXCEPT !.script = script,
               !.context = ctx,
               !.updated_at = now,
               !.validation_result =
                 IF script_updates.has
                 THEN ValidateScriptWithRulesEngine(script, ctx, engine)
                 ELSE s.validation_result]

\* PATCH /validation/scripts/{session_id}
UpdateValidationSession(id, script_updates, context, engine, now) ==
  /\ IF ~HasKey(validation_sessions, id)
     THEN /\ ret' = NotFound("patch", id)
          /\ UNCHANGED validation_sessions
     ELSE /\ validation_sessions' =
               Put(validation_sessions, id,
                   PatchedSession(Lookup(validation_sessions, id), script_updates, context, engine, now))
          /\ ret' = HttpResponse("patch", id, 200,
                                 IF script_updates.has
                                 THEN Lookup(validation_sessions', id).validation_result
                                 ELSE Lookup(validation_sessions, id).validation_result)
  /\ UNCHANGED <<file, constructed, spec, gen_tools, tools_cache, pending, net, first_gen,
                 failures, history, callers, session>>

\* DELETE /validation/scripts/{session_id}
DeleteValidationSession(id) ==
  /\ IF ~HasKey(validation_sessions, id)
     THEN /\ ret' = NotFound("delete", id)
          /\ UNCHANGED validation_sessions
     ELSE /\ validation_sessions' = DelSession(validation_sessions, id)
          /\ ret' = HttpResponse("delete", id, 200, <<"V","a","l","i","d","a","t","i","o","n"," ","s","e","s","s","i","o","n"," ","d","e","l","e","t","e","d">>)
  /\ UNCHANGED <<file, constructed, spec, gen_tools, tools_cache, pending, net, first_gen,
                 failures, history, callers, session>>

NextStore ==
  \/ ListValidationSessions
  \/ \E id \in SessionIds, script \in Scripts, engine \in EngineOutcomes, now \in Times :
       ValidateJythonScript(id, script, Absent, engine, now)
  \/ \E id \in SessionIds : GetValidationSession(id)
  \/ \E id \in SessionIds, script_updates \in {Absent} \cup {Some(s) : s \in Scripts},
        engine \in EngineOutcomes, now \in Times :
       UpdateValidationSession(id, script_updates, Absent, engine, now)
  \/ \E id \in SessionIds : DeleteValidationSession(id)

SpecStore == InitClient /\ [][NextStore]_vars
(***************************************************************************)
(* The claims.                                                             *)
(***************************************************************************)

\* the last operation was call_tool for a name that is no custom tool
GeneratedCallDone == ret.op = "call_tool" /\ ~IsCustomTool(ret.name)

\* C1: a call of a name that is neither a custom tool nor the name of a tool
\* in the generated cache returns the error result "Tool '<name>' not found",
\* and on that path no session is constructed or entered and no request is made.
C1_UnknownToolNoNetwork ==
  (GeneratedCallDone /\ tools_cache.set /\ FindTool(tools_cache.tools, ret.name) = 0)
    => /\ ~ret.raised
       /\ ret.result.isError
       /\ Contains(ret.result.text, <<"n","o","t"," ","f","o","u","n","d">>)
       /\ Contains(ret.result.text, ret.name)
       /\ net.constructed = 0 /\ net.entered = 0 /\ net.requests = <<>>

\* an unknown name was called while the cache holds tools
C1_Witness ==
  /\ GeneratedCallDone /\ ret.name = <<"n","o","_","s","u","c","h","_","t","o","o","l">>
  /\ tools_cache.set /\ tools_cache.tools # <<>>
  /\ ret.result.isError

\* the keys of an argument mapping by the bucket the claim gives them
IsBodyKey(key) == StartsWith(key, <<"b","o","d","y","_">>)

IsPathKey(path, key) == ~IsBodyKey(key) /\ Contains(path, <<"{">> \o key \o <<"}">>)

IsQueryKey(path, key) == ~IsBodyKey(key) /\ ~IsPathKey(path, key)

\* the template with every placeholder {key} of a path key replaced at once,
\* reading the template from the left
RECURSIVE Substituted(_, _, _)
Substituted(template, path, arguments) ==
  IF template = <<>> THEN <<>>
  ELSE IF \E i \in DOMAIN arguments :
            /\ IsPathKey(path, arguments[i].k)
            /\ StartsWith(template, <<"{">> \o arguments[i].k \o <<"}">>)
       THEN LET i == CHOOSE i \in DOMAIN arguments :
                       /\ IsPathKey(path, arguments[i].k)
                       /\ StartsWith(template, <<"{">> \o arguments[i].k \o <<"}">>)
            IN Str(arguments[i].v)
                 \o Substituted(Drop(template, Len(arguments[i].k) + 2), path, arguments)
       ELSE <<template[1]>> \o Substituted(Tail(template), path, arguments)

\* the request of the last call, and the tool it was made for
LastRequest == net.requests[1]

LastTool == tools_cache.tools[FindTool(tools_cache.tools, ret.name)]

GeneratedRequestMade == GeneratedCallDone /\ net.requests # <<>>

\* C2: in a generated-tool dispatch every argument key goes to exactly one
\* bucket: a body_ key only into the JSON body under its unprefixed name, a
\* key that is a {key} placeholder of the path template only into the path,
\* every other key only into the query mapping.
C2_ThreeBuckets ==
  GeneratedRequestMade =>
    LET arguments == ret.arguments
        path == LastTool._ignition_path
        bodyKeys == {i \in DOMAIN arguments : IsBodyKey(arguments[i].k)}
        pathKeys == {i \in DOMAIN arguments : IsPathKey(path, arguments[i].k)}
        queryKeys == {i \in DOMAIN arguments : IsQueryKey(path, arguments[i].k)}
        json == LastRequest.json
        params == LastRequest.params
    IN /\ Range(Keys(json.entries)) = {Drop(arguments[i].k, 5) : i \in bodyKeys}
       /\ \A i \in bodyKeys : Lookup(json.entries, Drop(arguments[i].k, 5)) = arguments[i].v
       /\ json.has <=> bodyKeys # {}
       /\ Range(Keys(params.entries)) = {arguments[i].k : i \in queryKeys}
       /\ \A i \in queryKeys : Lookup(params.entries, arguments[i].k) = arguments[i].v
       /\ params.has <=> queryKeys # {}
       /\ (\A i \in pathKeys : ~Contains(Str(arguments[i].v), <<"{">>))
            => LastRequest.url = Substituted(path, path, arguments)

\* a call that fills all three buckets: name goes into the path, limit into
\* the query, body_name into the body under "name"
C2_Witness ==
  /\ GeneratedRequestMade
  /\ \E i \in DOMAIN ret.arguments : IsPathKey(LastTool._ignition_path, ret.arguments[i].k)
  /\ \E i \in DOMAIN ret.arguments : ret.arguments[i].k = <<"b","o","d","y","_","n","a","m","e">>
  /\ LastRequest.url = <<"/","d","a","t","a","/","a","p","i","/","v","1","/","t","a","g","s","/","T","1">>
  /\ HasKey(LastRequest.json.entries, <<"n","a","m","e">>)

\* C3: when the transport fails in a call of a generated tool, the result is
\* an error whose text is the same for every failure of that tool (it equals
\* the result of the tool's first failure, whatever was raised then) and does
\* not contain the message of the exception raised.
C3_GenericTransportError ==
  (GeneratedCallDone /\ TransportFailed(net)) =>
    /\ ~ret.raised
    /\ ret.result.isError
    /\ ~Contains(ret.result.text, RequestResult(net.outcomes[1]).val)
    /\ \A f \in failures : f.name = ret.name => f.result = ret.result

\* two failures of one tool with different exceptions
C3_Witness ==
  /\ GeneratedCallDone /\ TransportFailed(net)
  /\ \E f \in failures : f.name = ret.name /\ f.exc # RequestResult(net.outcomes[1]).exc

\* C4: call_tool returns a result for every name, argument mapping, loaded
\* spec and transport outcome: it never raises.
C4_CallToolNeverRaises == ret.op = "call_tool" => ~ret.raised

\* C5: for a loaded document (a JSON object) with no "paths" key,
\* generate_tools returns the empty list and raises nothing.
C5_NoPathsNoTools ==
  (ret.op = "generate_tools" /\ spec.isDict /\ ~spec.hasPaths)
    => ~ret.raised /\ ret.tools = <<>>

\* generate_tools ran on a document without "paths"
C5_Witness == ret.op = "generate_tools" /\ spec = NoPathsDocument /\ ~ret.raised

\* a document that is no well-formed mapping of paths to operations
Malformed(doc) ==
  \/ ~doc.isDict
  \/ doc.hasPaths /\ ~doc.pathsIsDict
  \/ \E i \in DOMAIN doc.paths :
       \/ ~doc.paths[i].v.isDict
       \/ \E j \in DOMAIN doc.paths[i].v.entries :
            /\ Lower(doc.paths[i].v.entries[j].k) \in HttpMethods
            /\ \/ ~doc.paths[i].v.entries[j].v.isDict
               \/ \E p \in DOMAIN doc.paths[i].v.entries[j].v.parameters :
                    ~doc.paths[i].v.entries[j].v.parameters[p].hasName

\* C6: a missing or malformed document degrades to an empty tool set and is
\* never raised: the constructor succeeds, and listing succeeds with no
\* generated tool, when the document is absent or malformed.
C6_SpecErrorsDegrade ==
  /\ (ret.op = "__init__" /\ file.state # "json") => ~ret.raised
  /\ (ret.op = "get_tools" /\ Malformed(spec))
       => ~ret.raised /\ Len(ret.tools) = Len(CustomToolDefs)

\* the operations of a document: path, method key and operation object
Operations(doc) ==
  UNION {{[path |-> doc.paths[i].k,
            method |-> doc.paths[i].v.entries[j].k,
            operation |-> doc.paths[i].v.entries[j].v] : j \in DOMAIN doc.paths[i].v.entries} :
           i \in DOMAIN doc.paths}

AllowListed(path) == \E i \in DOMAIN ManagementPatterns : StartsWith(path, ManagementPatterns[i])

\* the operation a tool was made from
Origin(doc, tool) ==
  {o \in Operations(doc) :
     /\ o.path = tool._ignition_path
     /\ Upper(o.method) = tool._ignition_method
     /\ o.operation = tool._ignition_operation}

\* a list of generated tools comes from operations that are not deprecated
\* and lie under an allow-listed prefix
FromIncluded(doc, tools) ==
  \A i \in DOMAIN tools :
    \E o \in Origin(doc, tools[i]) : ~o.operation.deprecated /\ AllowListed(o.path)

\* C7: every generated tool, returned by generate_tools or held in the cache,
\* comes from an operation that is not deprecated and whose path begins with
\* an allow-listed prefix.
C7_OnlyIncludedOperations ==
  /\ (ret.op = "generate_tools" /\ ~ret.raised) => FromIncluded(spec, ret.tools)
  /\ tools_cache.set => FromIncluded(spec, tools_cache.tools)

\* tools were generated from a document that also has a deprecated operation
\* under an allow-listed prefix and an operation outside the allow-list
C7_Witness ==
  /\ ret.op = "generate_tools" /\ ~ret.raised /\ ret.tools # <<>>
  /\ \E o \in Operations(spec) : o.operation.deprecated /\ AllowListed(o.path)
  /\ \E o \in Operations(spec) : Lower(o.method) \in HttpMethods /\ ~AllowListed(o.path)

\* the method keys of an OpenAPI path item
OpenApiMethods == HttpMethods \cup {<<"h","e","a","d">>, <<"o","p","t","i","o","n","s">>, <<"t","r","a","c","e">>}

\* the tools hold one for each includable operation with a method in methods
Covers(doc, tools, methods) ==
  \A o \in Operations(doc) :
    (Lower(o.method) \in methods /\ o.operation.isDict /\ ~o.operation.deprecated /\ AllowListed(o.path))
      => \E i \in DOMAIN tools :
           tools[i]._ignition_path = o.path /\ tools[i]._ignition_method = Upper(o.method)

Names(tools) == [i \in DOMAIN tools |-> tools[i].name]

\* C9: every invocation of generate_tools on one generator ends as the first
\* one did, with the same tool names in the same order, and leaves the
\* generator's spec and tools as they were.
C9_GenerationRepeats ==
  /\ (ret.op = "generate_tools" /\ first_gen.set)
       => ret.raised = first_gen.raised /\ Names(ret.tools) = Names(first_gen.tools)
  /\ (tools_cache.set /\ first_gen.set)
       => ~first_gen.raised /\ Names(tools_cache.tools) = Names(first_gen.tools)
  /\ constructed = "yes" => spec = file.doc /\ gen_tools = <<>>

\* generate_tools was invoked for the cache and again directly, and returned
\* several tools
C9_Witness ==
  /\ tools_cache.set /\ ret.op = "generate_tools" /\ Len(ret.tools) >= 2
  /\ ret.tools[1]._ignition_path # ret.tools[2]._ignition_path

\* C10: get_tools returns the custom tool definitions, then the generated
\* ones in cache order, each as name, description and inputSchema only.
C10_CustomThenGenerated ==
  (ret.op = "get_tools" /\ ~ret.raised) =>
    LET n == Len(CustomToolDefs) IN
    /\ tools_cache.set
    /\ Len(ret.tools) = n + Len(tools_cache.tools)
    /\ \A i \in 1..n :
         /\ ret.tools[i].name = CustomToolDefs[i].name
         /\ ret.tools[i].description = CustomToolDefs[i].description
         /\ ret.tools[i].inputSchema = CustomToolDefs[i].inputSchema
    /\ \A i \in DOMAIN tools_cache.tools :
         /\ ret.tools[n + i].name = tools_cache.tools[i].name
         /\ ret.tools[n + i].description = tools_cache.tools[i].description
         /\ ret.tools[n + i].inputSchema = tools_cache.tools[i].inputSchema
    /\ \A i \in DOMAIN ret.tools : DOMAIN ret.tools[i] = {"name", "description", "inputSchema"}

\* a listing with the custom tool and several generated tools
C10_Witness ==
  /\ ret.op = "get_tools" /\ ~ret.raised
  /\ Len(tools_cache.tools) >= 2
  /\ ret.tools[1].name = <<"c","r","e","a","t","e","_","o","r","_","u","p","d","a","t","e","_","t","a","g">>


\* the last operation was call_tool for the name of the custom tag tool
CustomCallDone == ret.op = "call_tool" /\ ret.name = <<"c","r","e","a","t","e","_","o","r","_","u","p","d","a","t","e","_","t","a","g">>

\* the cache holds a generated tool with the name of the custom tag tool
CacheHoldsCustomName ==
  tools_cache.set /\ \E i \in DOMAIN tools_cache.tools : tools_cache.tools[i].name = <<"c","r","e","a","t","e","_","o","r","_","u","p","d","a","t","e","_","t","a","g">>

\* C11: a call of the custom tool's name runs the custom handler, whether or
\* not a generated tool has that name: the result and the use of the
\* transport are the handler's, every request goes to a WebDev path, and the
\* call does not build the generated cache.
C11_CustomHandlerWins ==
  CustomCallDone =>
    /\ ~ret.raised
    /\ \E outcome \in Outcomes :
         /\ ret.result = ToolCreateOrUpdateTag(ret.arguments, outcome).out.val
         /\ net = ToolCreateOrUpdateTag(ret.arguments, outcome).net
    /\ \A i \in DOMAIN net.requests : StartsWith(net.requests[i].url, <<"/","s","y","s","t","e","m","/","w","e","b","d","e","v","/">>)
    /\ history.generations = 0 => ~tools_cache.set

\* the custom tool was called, and made its request, while the cache holds a
\* generated tool of the same name
C11_Witness ==
  /\ CustomCallDone /\ CacheHoldsCustomName
  /\ net.requests # <<>>
  /\ LastRequest.url = <<"/","s","y","s","t","e","m","/","w","e","b","d","e","v","/","t","a","g","s">>

\* an argument is present: its key is there and its value is not null
Present(arguments, key) == HasKey(arguments, key) /\ Lookup(arguments, key).t # "NoneType"

\* the type of an argument that is present
TypeOf(arguments, key) == Lookup(arguments, key).t

\* the violations of the tag tool's local validation, as the claim lists them
TagViolation(arguments) ==
  \/ Present(arguments, <<"p","a","y","l","o","a","d","O","v","e","r","r","i","d","e">>) /\ TypeOf(arguments, <<"p","a","y","l","o","a","d","O","v","e","r","r","i","d","e">>) \notin {"dict", "list"}
  \/ \E key \in {<<"a","t","t","r","i","b","u","t","e","s">>, <<"h","e","a","d","e","r","s">>, <<"q","u","e","r","y","P","a","r","a","m","s">>} :
       Present(arguments, key) /\ TypeOf(arguments, key) # "dict"
  \/ Present(arguments, <<"h","t","t","p","M","e","t","h","o","d">>) /\ TypeOf(arguments, <<"h","t","t","p","M","e","t","h","o","d">>) # "str"
  \/ /\ ~Present(arguments, <<"p","a","y","l","o","a","d","O","v","e","r","r","i","d","e">>)
     /\ \/ ~Present(arguments, <<"t","a","g","P","a","t","h">>)
        \/ Lookup(arguments, <<"t","a","g","P","a","t","h">>) = VStr(<<>>)
        \/ ~HasKey(arguments, <<"v","a","l","u","e">>)

\* C12: the custom tag tool fails fast on local validation: on a violation
\* it returns an error result without acquiring a session or making a
\* request; a null value under a present value key is no violation, and the
\* handler goes on to acquire a session.
C12_TagValidationFailsFast ==
  CustomCallDone =>
    /\ TagViolation(ret.arguments)
         => ~ret.raised /\ ret.result.isError /\ net = NoTransport
    /\ (~TagViolation(ret.arguments) /\ HasKey(ret.arguments, <<"v","a","l","u","e">>)
          /\ Lookup(ret.arguments, <<"v","a","l","u","e">>) = VNull)
         => net.constructed = 1

\* the tag tool was called with headers that are no object
C12_Witness ==
  /\ CustomCallDone
  /\ Present(ret.arguments, <<"h","e","a","d","e","r","s">>) /\ TypeOf(ret.arguments, <<"h","e","a","d","e","r","s">>) = "int"
  /\ ret.result = ErrorResult(<<"h","e","a","d","e","r","s"," ","m","u","s","t"," ","b","e"," ","a","n"," ","o","b","j","e","c","t"," ","o","f"," ","s","t","r","i","n","g"," ","v","a","l","u","e","s"," ","w","h","e","n"," ","p","r","o","v","i","d","e","d">>)
  /\ net = NoTransport

\* the tag tool is called with a tagPath and a value, with no payloadOverride
\* and no httpMethod, and nothing else is wrong with the arguments
DefaultTagCall(arguments) ==
  /\ ~TagViolation(arguments)
  /\ ~Present(arguments, <<"p","a","y","l","o","a","d","O","v","e","r","r","i","d","e">>)
  /\ ~Present(arguments, <<"h","t","t","p","M","e","t","h","o","d">>)

\* the optional fields of the payload that were supplied, in payload order
SuppliedOptional(arguments) ==
  SelectSeq(<<<<"d","a","t","a","T","y","p","e">>, <<"a","t","t","r","i","b","u","t","e","s">>, <<"v","a","l","u","e","T","i","m","e","s","t","a","m","p">>, <<"q","u","a","l","i","t","y">>>>,
            LAMBDA key : HasKey(arguments, key) /\ Truthy(Lookup(arguments, key)))

\* C13: a call of the tag tool with a non-empty tagPath and a value, with no
\* payloadOverride and no httpMethod, makes exactly one request, to a WebDev
\* resource path, with the method POST and the JSON body {"path": tagPath,
\* "value": value} plus only the optional fields supplied.
C13_DefaultTagRequest ==
  (CustomCallDone /\ DefaultTagCall(ret.arguments)) =>
    /\ Len(net.requests) = 1
    /\ net.requests[1].method = <<"P","O","S","T">>
    /\ StartsWith(net.requests[1].url, <<"/","s","y","s","t","e","m","/","w","e","b","d","e","v","/">>)
    /\ Keys(net.requests[1].json.entries) = <<<<"p","a","t","h">>, <<"v","a","l","u","e">>>> \o SuppliedOptional(ret.arguments)
    /\ Lookup(net.requests[1].json.entries, <<"p","a","t","h">>) = Lookup(ret.arguments, <<"t","a","g","P","a","t","h">>)
    /\ Lookup(net.requests[1].json.entries, <<"v","a","l","u","e">>) = Lookup(ret.arguments, <<"v","a","l","u","e">>)

\* the cache is unset until the dispatcher has invoked generate_tools for it
CacheLazy == history.generations = 0 => ~tools_cache.set

\* the dispatcher has invoked generate_tools at most once
GeneratedAtMostOnce == history.generations <= 1

\* the cache has held one value at most, the one it holds now
CacheImmutable ==
  /\ Cardinality(history.caches) <= 1
  /\ tools_cache.set => history.caches = {tools_cache.tools}

\* C14: over any sequence of list, execute and summary operations on one
\* dispatcher, the cache is built lazily by the first operation that needs
\* it, generate_tools is invoked at most once, and the cache, once set,
\* never changes.
C14_CacheBuiltOnce == CacheLazy /\ GeneratedAtMostOnce /\ CacheImmutable

\* the complete list generate_tools produces for the loaded document
CompleteList == GenerateTools(spec).val

\* a value of the cache a call may observe: unset, or set to the complete list
Untorn(cache) == ~cache.set \/ cache.tools = CompleteList

\* C15: under any interleaving of concurrent calls on one dispatcher, every
\* value of the cache a call reads, at its test and at its lookup, is unset
\* or the complete list generate_tools produces for the loaded document, and
\* so is the cache itself, whichever call assigned it last.
C15_NoTornCache ==
  /\ Untorn(tools_cache)
  /\ \A c \in DOMAIN callers : \A cache \in callers[c].seen : Untorn(cache)

\* two calls both found the cache unset and both built it: one has assigned
\* and looked its tool up, the other is about to assign over it
C15_Witness ==
  /\ DOMAIN callers # {}
  /\ \E c, d \in DOMAIN callers :
       /\ c # d
       /\ callers[c].pc = "done" /\ callers[d].pc = "assign"
       /\ tools_cache.set /\ Len(tools_cache.tools) >= 2
       /\ tools_cache \in callers[c].seen

\* C16: when call_tool has returned, by the generated-tool path or by the
\* custom tag handler, every transport session it entered has been exited,
\* and none was constructed without being entered: after a successful
\* response, after a transport or HTTP exception, and after a ValueError in
\* the handler.
C16_SessionReleased ==
  ret.op = "call_tool" =>
    /\ net.exited = net.entered
    /\ net.entered = net.constructed

\* a call entered a session, its request failed, and the call returned an
\* error result
C16_Witness ==
  /\ ret.op = "call_tool" /\ ~ret.raised /\ ret.result.isError
  /\ net.entered = 1
  /\ net.requests # <<>>
  /\ RequestResult(net.outcomes[1]).raised

\* the authentication entries among a request's headers
AuthPart(headers) ==
  SelectSeq(headers, LAMBDA e : e.k \in {<<"A","u","t","h","o","r","i","z","a","t","i","o","n">>, <<"X","-","I","g","n","i","t","i","o","n","-","A","P","I","-","T","o","k","e","n">>})

\* the authentication a request must carry for the credentials held
AuthFor(held) ==
  IF held.api_key # <<>>
  THEN <<E(<<"X","-","I","g","n","i","t","i","o","n","-","A","P","I","-","T","o","k","e","n">>, held.api_key)>>
  ELSE <<E(<<"A","u","t","h","o","r","i","z","a","t","i","o","n">>, <<"B","a","s","i","c"," ">> \o B64Encode(held.username \o <<":">> \o held.password))>>

\* C17: every request of a session carries exactly the authentication of the
\* credentials the session held when it was sent: the token header if the
\* API token is non-empty, otherwise HTTP Basic of username:password; after
\* a change of credentials the next request carries the new ones and nothing
\* of the old.
C17_FreshAuthHeaders ==
  session.made =>
    \A i \in DOMAIN session.sent : AuthPart(session.sent[i].request.headers) = AuthFor(session.sent[i].held)

\* a session sent one request as admin:password, was given a token and
\* other credentials, and sent a second request
C17_Witness ==
  /\ session.made /\ Len(session.sent) = 2
  /\ AuthPart(session.sent[1].request.headers) = <<E(<<"A","u","t","h","o","r","i","z","a","t","i","o","n">>, <<"B","a","s","i","c"," ","Y","W","R","t","a","W","4","6","c","G","F","z","c","3","d","v","c","m","Q","=">>)>>
  /\ session.sent[2].held.username = <<"o","p","s">>
  /\ AuthPart(session.sent[2].request.headers) = <<E(<<"X","-","I","g","n","i","t","i","o","n","-","A","P","I","-","T","o","k","e","n">>, <<"t","o","k","-","2">>)>>

\* the gateway answered, with a status outside 200..299
NonSuccess(outcome) == ~outcome.failed /\ (outcome.status < 200 \/ outcome.status > 299)

\* C18: an operation of the transport other than the OpenAPI fetch raises
\* whenever the response is not 2xx, whatever its content type, and whenever
\* the connection fails: it returns no decoded body and no
\* {status, content} envelope for such a response.  The plain request
\* raises HTTPStatusError for a non-2xx response.
C18_NonSuccessRaises ==
  session.made /\ session.op \in {"get_gateway_status", "create_or_update_tag"} =>
    /\ NonSuccess(session.outcome) \/ session.outcome.failed => session.out.raised
    /\ session.op = "get_gateway_status" /\ NonSuccess(session.outcome) =>
         session.out.exc = "HTTPStatusError"

\* the gateway answered a status request with a redirect whose body is not
\* JSON, and the operation raised
C18_Witness ==
  /\ session.made /\ session.op = "get_gateway_status"
  /\ session.outcome.status = 302 /\ ~StartsWith(session.outcome.content_type, <<"a","p","p","l","i","c","a","t","i","o","n","/","j","s","o","n">>)
  /\ session.out.raised /\ session.out.exc = "HTTPStatusError"

\* the OpenAPI fetch failed: the connection failed, the status was not 2xx,
\* or the body did not decode
FetchFailed ==
  /\ session.made /\ session.op = "get_openapi_spec"
  /\ \/ session.outcome.failed
     \/ NonSuccess(session.outcome)
     \/ StartsWith(session.outcome.content_type, <<"a","p","p","l","i","c","a","t","i","o","n","/","j","s","o","n">>) /\ ~session.outcome.decodes

\* C19: when the request of the OpenAPI fetch fails, for whatever reason,
\* get_openapi_spec raises nothing and returns the minimal document:
\* openapi "3.0.0", an info object, and an empty paths mapping.
C19_FetchFallsBack ==
  FetchFailed =>
    /\ ~session.out.raised
    /\ Len(session.out.val) = 3
    /\ Lookup(session.out.val, <<"o","p","e","n","a","p","i">>) = VStr(<<"3",".","0",".","0">>)
    /\ Lookup(session.out.val, <<"i","n","f","o">>).t = "dict"
    /\ Lookup(session.out.val, <<"p","a","t","h","s">>) = VDict(<<>>)

\* the gateway refused the OpenAPI fetch with 403 and the minimal document
\* came back
C19_Witness ==
  /\ FetchFailed /\ session.outcome.status = 403
  /\ ~session.out.raised /\ Lookup(session.out.val, <<"p","a","t","h","s">>) = VDict(<<>>)

\* C20: on one dispatcher whose document loads and generates, every
\* total_tools the summary has returned equals every length the listing has
\* returned (custom tools plus generated ones), in whichever order the two
\* were called.
C20_TotalMatchesListing ==
  \A listed \in history.listed : \A total \in history.totals : total = listed

\* the summary was taken first and the listing after it, on a document that
\* generates tools
C20_Witness ==
  /\ ret.op = "get_tools" /\ ~ret.raised
  /\ history.totals # {}
  /\ Len(ret.tools) > Len(CustomToolDefs)
  /\ Len(ret.tools) \in history.totals

\* the characters of an identifier
IdentChars == Range(<<"a","b","c","d","e","f","g","h","i","j","k","l","m","n","o","p","q","r","s","t","u","v","w","x","y","z","A","B","C","D","E","F","G","H","I","J","K","L","M","N","O","P","Q","R","S","T","U","V","W","X","Y","Z","0","1","2","3","4","5","6","7","8","9","_">>)

\* C21: every generated tool's name is a non-empty string of letters, digits
\* and underscores, so it holds no path separator, whether it comes from the
\* operationId or from the method and the path.
C21_NamesIdentifierSafe ==
  tools_cache.set =>
    \A i \in DOMAIN tools_cache.tools :
      /\ tools_cache.tools[i].name # <<>>
      /\ Range(tools_cache.tools[i].name) \subseteq IdentChars

\* the names of the parameters an operation declares, and the keys its
\* request body's properties are listed under
DeclaredNames(operation) == {operation.parameters[i].name : i \in DOMAIN operation.parameters}

BodyKeys(operation) == {<<"b","o","d","y","_">> \o operation.requestBody.props[i].name : i \in DOMAIN operation.requestBody.props}

\* C22: in a dispatch of a generated tool, an argument under a key of the
\* tool's inputSchema.properties goes where the key came from: under a key
\* of a request-body property it reaches the JSON body under the property's
\* name, and under the name of a declared parameter it reaches the path or
\* the query mapping and not the JSON body.
C22_RoutingAgrees ==
  GeneratedRequestMade =>
    \A i \in DOMAIN ret.arguments :
      LET key == ret.arguments[i].k
          operation == LastTool._ignition_operation
      IN HasKey(LastTool.inputSchema.properties, key) =>
           /\ key \in BodyKeys(operation) =>
                /\ HasKey(LastRequest.json.entries, Drop(key, 5))
                /\ Lookup(LastRequest.json.entries, Drop(key, 5)) = ret.arguments[i].v
           /\ key \in DeclaredNames(operation) =>
                /\ HasKey(LastRequest.params.entries, key) \/ Contains(LastTool._ignition_path, <<"{">> \o key \o <<"}">>)
                /\ \A j \in DOMAIN LastRequest.json.entries : <<"b","o","d","y","_">> \o LastRequest.json.entries[j].k # key

\* C23: in every generated inputSchema, required holds exactly the names of
\* the declared parameters marked required, each of them a key of
\* properties, and no property that describes a request-body property is
\* listed in required.
C23_RequiredFromParameters ==
  tools_cache.set =>
    \A i \in DOMAIN tools_cache.tools :
      LET schema == tools_cache.tools[i].inputSchema
          operation == tools_cache.tools[i]._ignition_operation
      IN /\ Range(schema.required)
              = {operation.parameters[j].name : j \in {j \in DOMAIN operation.parameters : operation.parameters[j].required}}
         /\ \A name \in Range(schema.required) : HasKey(schema.properties, name)
         /\ \A name \in Range(schema.required) :
              ~(operation.requestBody.has /\ name \in BodyKeys(operation))

\* the positions in the cache of the tools with the name of the last call
Homonyms == {i \in DOMAIN tools_cache.tools : tools_cache.tools[i].name = ret.name}

\* a generated tool was called, its request was made, and two tools of the
\* cache have its name
HomonymCalled == GeneratedRequestMade /\ Cardinality(Homonyms) >= 2

\* C24 as stated: when two included operations produce the same tool name, a
\* call of that name runs the one that is last in the path-sorted cache.
C24_LastRegisteredWins ==
  HomonymCalled =>
    LET last == CHOOSE i \in Homonyms : \A j \in Homonyms : j <= i
    IN /\ LastRequest.url = tools_cache.tools[last]._ignition_path
       /\ LastRequest.method = tools_cache.tools[last]._ignition_method

\* C24: when two included operations produce the same tool name, a call of
\* that name runs the one that is first in the path-sorted cache.
C24_FirstInCacheWins ==
  HomonymCalled =>
    LET first == CHOOSE i \in Homonyms : \A j \in Homonyms : i <= j
    IN /\ LastRequest.url = tools_cache.tools[first]._ignition_path
       /\ LastRequest.method = tools_cache.tools[first]._ignition_method

\* "dup" names the operations of /tags/a and /tags/b; it was called and the
\* request went to /tags/a
C24_Witness ==
  /\ HomonymCalled /\ ret.name = <<"d","u","p">>
  /\ LastRequest.url = <<"/","d","a","t","a","/","a","p","i","/","v","1","/","t","a","g","s","/","a">>
  /\ tools_cache.tools[CHOOSE i \in Homonyms : \A j \in Homonyms : j <= i]._ignition_path = <<"/","d","a","t","a","/","a","p","i","/","v","1","/","t","a","g","s","/","b">>

\* an argument kwarg as a mapping: its entries in no order
AsMapping(kwarg) == [has |-> kwarg.has, entries |-> Range(kwarg.entries)]

\* C28: the request of a generated-tool dispatch depends on the key/value
\* pairs of the arguments alone: the same pairs in any other order give the
\* same final path, the same query mapping and the same JSON body.
C28_OrderIndependent ==
  GeneratedRequestMade =>
    \A other \in EdgeArgs \cup ArgSeqs :
      Range(other) = Range(ret.arguments) /\ Len(other) = Len(ret.arguments) =>
        /\ ApiRequest(NewClient, LastTool, other).url = LastRequest.url
        /\ AsMapping(ApiRequest(NewClient, LastTool, other).params) = AsMapping(LastRequest.params)
        /\ AsMapping(ApiRequest(NewClient, LastTool, other).json) = AsMapping(LastRequest.json)

\* C25: over any sequence of calls the stdio server handles, no call enters
\* a session that was released before: the with block of a call is never
\* refused for a closed client, and a call that entered a session exited it.
C25_SessionNeverReused ==
  ret.op = "server.call_tool" =>
    /\ session.refused = 0
    /\ net.entered = net.exited

\* C26: on POST /tools/{tool_name} of either REST front end, whenever the
\* dispatcher returned a result, the response has success = TRUE exactly
\* when the result is no error result.
C26_SuccessIffNoError ==
  ret.op \in {"fastapi_server", "enhanced_mcp_server"} /\ ~ret.raised =>
    (ret.response.success <=> ~ret.result.isError)

\* the custom tag tool was called and its request failed after it was sent:
\* the connection failed, the status was not 2xx, or the body did not decode
TagCallFailedInTransport == CustomCallDone /\ TransportFailed(net)

\* C27: when the transport fails in a call of the custom tag tool after the
\* request was started, the result is the fixed generic error text of
\* create_or_update_tag, whatever the exception and its message.
C27_TagFailureGeneric ==
  TagCallFailedInTransport =>
    /\ ~ret.raised
    /\ ret.result = ErrorResult(<<"E","r","r","o","r"," ","e","x","e","c","u","t","i","n","g"," ","c","r","e","a","t","e","_","o","r","_","u","p","d","a","t","e","_","t","a","g","."," ","P","l","e","a","s","e"," ","v","e","r","i","f","y"," ","t","h","e"," ","W","e","b","D","e","v"," ","c","o","n","f","i","g","u","r","a","t","i","o","n",".">>)

\* the headers of a request whose name, in any letter case, is one of names
HeadersNamed(headers, names) == SelectSeq(headers, LAMBDA e : Lower(e.k) \in names)

\* C29: whatever headers the caller of the custom tag tool supplies, the
\* request carries exactly one credential header, the one of the configured
\* credentials (HTTP Basic of admin:password, no API token being
\* configured), and exactly one Content-Type header, application/json.
C29_CallerHeadersNoAuth ==
  CustomCallDone /\ net.requests # <<>> =>
    /\ HeadersNamed(LastRequest.headers, {<<"a","u","t","h","o","r","i","z","a","t","i","o","n">>, <<"x","-","i","g","n","i","t","i","o","n","-","a","p","i","-","t","o","k","e","n">>})
         = <<E(<<"A","u","t","h","o","r","i","z","a","t","i","o","n">>, <<"B","a","s","i","c"," ","Y","W","R","t","a","W","4","6","c","G","F","z","c","3","d","v","c","m","Q","=">>)>>
    /\ HeadersNamed(LastRequest.headers, {<<"c","o","n","t","e","n","t","-","t","y","p","e">>}) = <<E(<<"C","o","n","t","e","n","t","-","T","y","p","e">>, <<"a","p","p","l","i","c","a","t","i","o","n","/","j","s","o","n">>)>>

\* a request for one session id has just been answered
SessionRequested(r) == r.op \in {"get", "patch", "delete"}

\* C30: in every step of the validation-session store, a GET, PATCH or
\* DELETE for a session id that is not in the store is answered with 404
\* and leaves the store as it was, and a DELETE for a stored id is answered
\* with 200 and leaves the store without that id and with every other
\* session as it was, in the same order.
C30_UnknownIdNotFound ==
  [][SessionRequested(ret') =>
       /\ ~HasKey(validation_sessions, ret'.id) =>
            ret'.status = 404 /\ validation_sessions' = validation_sessions
       /\ HasKey(validation_sessions, ret'.id) => ret'.status = 200
       /\ ret'.op = "delete" /\ HasKey(validation_sessions, ret'.id) =>
            /\ ~HasKey(validation_sessions', ret'.id)
            /\ \A i \in DOMAIN validation_sessions :
                 validation_sessions[i].k # ret'.id =>
                   /\ HasKey(validation_sessions', validation_sessions[i].k)
                   /\ Lookup(validation_sessions', validation_sessions[i].k) = validation_sessions[i].v
            /\ Len(validation_sessions') = Len(validation_sessions) - 1]_vars

\* a DELETE for an id that is not in the store was answered with 404 while
\* another session is stored
C30_Witness == ret.op = "delete" /\ ret.status = 404 /\ validation_sessions # <<>>
====
